---------------------------- MODULE Spec2Model ----------------------------
(***************************************************************************)
(* A model of the Adam Sandler news agent: the News and Report entities,   *)
(* the BBC extractor's search request and the web-scraping repository's    *)
(* aggregation over its registered scrapers.                               *)
(*                                                                         *)
(* Texts are sequences of one-character strings, so that len(), strip()    *)
(* and split() are computed as Python computes them.                       *)
(*                                                                         *)
(* Each component has its own specification (SpecNews, SpecReport,         *)
(* SpecSearch, SpecRepo, SpecUseCase, SpecParse, SpecDate, SpecCli); the   *)
(* variables of the other components stay at their initial value.          *)
(***************************************************************************)
EXTENDS Integers, Sequences, FiniteSets, TLC

VARIABLES
    \* ---- News (src/domain/entities/news.py)
    n_pc,          \* "new" | "constructed" | "failed" | "summarised" | "judged"
    n_args,        \* the arguments News(...) was called with
    n_news,        \* <<>> or <<the instance>>
    n_max,         \* max_length of the generate_summary call
    n_summary,     \* what generate_summary returned
    n_relevant,    \* what is_relevant_to_adam_sandler returned
    \* ---- Report (src/domain/entities/report.py)
    r_pc,          \* "off" | "open" | "summarised" | "rendered" | "generated"
    r_title,       \* Report.title
    r_generated_at,\* Report.generated_at
    r_news_list,   \* Report.news_list
    r_summary,     \* what Report.generate_summary returned: a sequence of lines
    r_html,        \* what Report.to_html returned: the parts of the document
    r_metadata,    \* <<>> or <<Report.metadata>>
    \* ---- BBCScraper.search_adam_sandler_news (src/infrastructure/web_scraping/bbc_scraper.py)
    s_pc,          \* "off" | "ready" | "awaiting" | "returned" | "raised"
    s_session_open,\* whether the aiohttp session given by the caller is open
    s_retry,       \* config["retry_attempts"] of the source
    s_max_results, \* the max_results argument
    s_query,       \* the query fetch_news_from_source was called with
    s_url,         \* the url of the search request
    s_requests,    \* how many GETs of the search URL were issued
    s_response,    \* what the GET in flight comes back with
    s_handler,     \* the branch that produced the return value
    s_result,      \* the list returned
    \* ---- WebScrapingNewsRepository (src/infrastructure/web_scraping/news_repository_impl.py)
    scrapers,      \* self.scrapers: the dict, as the sequence of its entries
    session,       \* self.session: "none" | "open" | "closed"
    open_sessions, \* how many ClientSession objects were created and not closed
    f_pc,          \* the call in progress: "idle" | "loop" | "done" | "raised" of
                   \* fetch_all_adam_sandler_news, "reported" | "sent" of the
                   \* report service, "searched" | "latest" of the two searches
    f_idx,         \* the entry of self.scrapers the loop is at
    all_news,      \* the list the loop builds
    f_log,         \* what happened for each entry the loop has been through
    unique_news,   \* the list returned
    l_limit,       \* the limit get_latest_news was called with
    g_report,      \* <<>> or <<the Report of generate_adam_sandler_report>>
    g_sent,        \* <<>> or <<the text and html parts of the message sent>>
    \* ---- NewsAggregatorUseCase (src/application/use_cases/news_aggregator_use_case.py)
    u_pc,          \* "off" | "idle" | "body" | "returned"
    u_op,          \* the operation called
    u_fail,        \* where the body of the operation fails, "none" if nowhere
    u_result,      \* "none" | "success" | "failure"
    \* ---- BBCScraper._parse_search_results (src/infrastructure/web_scraping/bbc_scraper.py)
    p_pc,          \* "off" | "start" | "articles" | "links" | "returned"
    p_page,        \* the results page: the elements each selector matches and its links
    p_max_results, \* the max_results argument
    p_tried,       \* how many selectors were tried
    p_articles,    \* articles: the elements of the selector that matched
    p_path,        \* "none" | "selector" | "fallback": the loop that runs
    p_idx,         \* the element the loop is at
    p_news_list,   \* news_list
    p_log,         \* for each News made: its body before and after the article fetch
    p_result,      \* the list returned
    \* ---- BBCScraper._extract_published_date (src/infrastructure/web_scraping/bbc_scraper.py)
    d_pc,          \* "off" | "start" | "returned"
    d_article,     \* the date elements of the article element
    d_now,         \* what datetime.now() gives during the call
    d_result,      \* <<>> or <<the datetime returned>>
    \* ---- the command line (src/interfaces/cli/main.py)
    c_pc,          \* "off" | "start" | "setup" | "call" | "returned" | "exited"
    c_args,        \* the commands given on the command line
    c_setup_ok,    \* whether setup_repositories succeeds
    c_outcome,     \* what the use case gives when called as its signature allows
    c_command,     \* the command run_async picked
    c_returned,    \* "none" | "True" | "False" | "TypeError": how the method ended
    c_exit         \* the exit code, -1 while running

newsVars == <<n_pc, n_args, n_news, n_max, n_summary, n_relevant>>
reportVars == <<r_pc, r_title, r_generated_at, r_news_list, r_summary, r_html, r_metadata>>

searchVars == <<s_pc, s_session_open, s_retry, s_max_results, s_query, s_url, s_requests,
                s_response, s_handler, s_result>>

repoVars == <<scrapers, session, open_sessions, f_pc, f_idx, all_news, f_log, unique_news,
              l_limit, g_report, g_sent>>

useCaseVars == <<u_pc, u_op, u_fail, u_result>>

parseVars == <<p_pc, p_page, p_max_results, p_tried, p_articles, p_path, p_idx, p_news_list,
               p_log, p_result>>

dateVars == <<d_pc, d_article, d_now, d_result>>

cliVars == <<c_pc, c_args, c_setup_ok, c_outcome, c_command, c_returned, c_exit>>

vars == <<newsVars, reportVars, searchVars, repoVars, useCaseVars, parseVars, dateVars,
          cliVars>>

\* what the operations of one component leave alone
newsOthers == <<reportVars, searchVars, repoVars, useCaseVars, parseVars, dateVars,
    cliVars>>
reportOthers == <<newsVars, searchVars, repoVars, useCaseVars, parseVars, dateVars,
    cliVars>>
searchOthers == <<newsVars, reportVars, repoVars, useCaseVars, parseVars, dateVars,
    cliVars>>
repoOthers == <<newsVars, reportVars, searchVars, useCaseVars, parseVars, dateVars,
    cliVars>>
useCaseOthers == <<newsVars, reportVars, searchVars, parseVars, dateVars,
    cliVars>>
parseOthers == <<newsVars, reportVars, searchVars, repoVars, useCaseVars, dateVars,
    cliVars>>
dateOthers == <<newsVars, reportVars, searchVars, repoVars, useCaseVars, parseVars, cliVars>>
cliOthers == <<newsVars, reportVars, searchVars, repoVars, useCaseVars, parseVars, dateVars>>

(***************************************************************************)
(* Bounds                                                                  *)
(***************************************************************************)
\* longest body text given to News(...)
MaxLen == 4
\* largest max_length given to News.generate_summary
MaxLimit == 3
\* largest retry_attempts a source is configured with
MaxRetry == 3
\* largest max_results given to the extractor
MaxResults == 2
\* longest list a registered scraper returns
MaxItems == 2
\* largest limit given to get_latest_news
MaxLatest == 2
\* most elements the selectors match on a results page, and most links
\* it has
MaxElements == 2

(***************************************************************************)
(* Texts                                                                   *)
(***************************************************************************)
RECURSIVE StrsUpTo(_, _)
StrsUpTo(chars, n) ==
    IF n = 0 THEN {<<>>}
    ELSE LET shorter == StrsUpTo(chars, n - 1)
         IN  shorter \cup {Append(s, c) : s \in {t \in shorter : Len(t) = n - 1}, c \in chars}

\* str.strip() with no argument removes leading and trailing whitespace
IsSpace(c) == c \in {" ", "\t", "\n", "\r", "\f"}

RECURSIVE LStrip(_)
LStrip(s) == IF s # <<>> /\ IsSpace(Head(s)) THEN LStrip(Tail(s)) ELSE s

RECURSIVE RStrip(_)
RStrip(s) ==
    IF s # <<>> /\ IsSpace(s[Len(s)]) THEN RStrip(SubSeq(s, 1, Len(s) - 1)) ELSE s

Strip(s) == RStrip(LStrip(s))

\* the separator of content.split('. ')
SentenceSep == <<".", " ">>

IsPrefix(p, s) == Len(p) <= Len(s) /\ SubSeq(s, 1, Len(p)) = p

\* the positions at which sep occurs in s
Occurrences(sep, s) ==
    {i \in 1..Len(s) : i + Len(sep) - 1 <= Len(s) /\ SubSeq(s, i, i + Len(sep) - 1) = sep}

Min(S) == CHOOSE x \in S : \A y \in S : x <= y

\* str.split(sep): the pieces between the occurrences of sep, scanning
\* left to right; a text without sep is its own single piece
RECURSIVE Split(_, _)
Split(s, sep) ==
    IF Occurrences(sep, s) = {} THEN <<s>>
    ELSE LET i == Min(Occurrences(sep, s))
         IN  <<SubSeq(s, 1, i - 1)>> \o Split(SubSeq(s, i + Len(sep), Len(s)), sep)

\* str.lower() of one character, for the capitals the model's texts have
LowerChar(c) ==
    CASE c = "A" -> "a" [] c = "S" -> "s" [] c = "N" -> "n" [] c = "H" -> "h"
      [] c = "M" -> "m" [] c = "C" -> "c" [] c = "F" -> "f" [] c = "J" -> "j"
      [] c = "O" -> "o" [] c = "D" -> "d" [] OTHER -> c

\* str.lower()
Lower(s) == [i \in 1..Len(s) |-> LowerChar(s[i])]

\* sep.join(parts)
RECURSIVE Join(_, _)
Join(parts, sep) ==
    IF parts = <<>> THEN <<>>
    ELSE IF Len(parts) = 1 THEN Head(parts)
    ELSE Head(parts) \o sep \o Join(Tail(parts), sep)

\* the text of n characters that starts with prefix
Pad(prefix, n) == prefix \o [i \in 1..(n - Len(prefix)) |-> "x"]

(***************************************************************************)
(* News                                                                    *)
(***************************************************************************)
\* the input texts of the model
BodyChars == {"a", ".", " "}
Bodies == StrsUpTo(BodyChars, MaxLen)
FieldTexts == {<<>>, <<" ">>, <<"\t", " ">>, <<"a">>, <<" ", "a", " ">>}

\* PostInitError without the strip(): only an empty text is refused
PostInitErrorNoStrip(title, content, url, source) ==
    IF title = <<>> THEN "title"
    ELSE IF content = <<>> THEN "content"
    ELSE IF url = <<>> THEN "url"
    ELSE IF source = <<>> THEN "source"
    ELSE "none"

\* News.__post_init__: the first blank required field raises ValueError
PostInitError(title, content, url, source) ==
    IF Strip(title) = <<>> THEN "title"
    ELSE IF Strip(content) = <<>> THEN "content"
    ELSE IF Strip(url) = <<>> THEN "url"
    ELSE IF Strip(source) = <<>> THEN "source"
    ELSE "none"

\* News.generate_summary's loop over the sentences: summary so far, the
\* sentences left; stops at the first sentence that does not fit
RECURSIVE SummaryLoop(_, _, _)
SummaryLoop(summary, sentences, max_length) ==
    IF sentences = <<>> THEN summary
    ELSE IF Len(summary \o Head(sentences)) <= max_length
         THEN SummaryLoop(summary \o Head(sentences) \o SentenceSep,
                          Tail(sentences), max_length)
         ELSE summary

\* News.generate_summary
GenerateSummary(content, max_length) ==
    IF Len(content) <= max_length THEN content
    ELSE Strip(SummaryLoop(<<>>, Split(content, SentenceSep), max_length))

\* the keyword list of the relevance test, which the code keeps in a comment
Keywords ==
    { <<"a","d","a","m"," ","s","a","n","d","l","e","r">>,
      <<"s","a","n","d","l","e","r">>,
      <<"h","a","p","p","y"," ","m","a","d","i","s","o","n">>,
      <<"n","e","t","f","l","i","x">>,
      <<"c","o","m","e","d","y">> }

\* News.is_relevant_to_adam_sandler: the keyword test is commented out
IsRelevantToAdamSandler(news) == TRUE

\* no News is being constructed
NewsIdle ==
    /\ n_pc = "off"
    /\ n_args = <<>>
    /\ n_news = <<>>
    /\ n_max = 0
    /\ n_summary = <<>>
    /\ n_relevant = FALSE

NewsInit ==
    /\ n_pc = "new"
    /\ n_args = <<>>
    /\ n_news = <<>>
    /\ n_max = 0
    /\ n_summary = <<>>
    /\ n_relevant = FALSE

\* News(title, content, url, source, ...): the dataclass stores the
\* fields, then __post_init__ validates them
NewsConstruct ==
    /\ n_pc = "new"
    /\ \E title \in FieldTexts, content \in Bodies, url \in FieldTexts, source \in FieldTexts :
          /\ n_args' = <<title, content, url, source>>
          /\ IF PostInitError(title, content, url, source) = "none"
             THEN /\ n_pc' = "constructed"
                  /\ n_news' = <<[title |-> title, content |-> content,
                                  url |-> url, source |-> source]>>
             ELSE /\ n_pc' = "failed"
                  /\ n_news' = <<>>
    /\ UNCHANGED <<n_max, n_summary, n_relevant>>
    /\ UNCHANGED newsOthers

\* news.generate_summary(max_length)
NewsGenerateSummary ==
    /\ n_pc = "constructed"
    /\ \E max_length \in 1..MaxLimit :
          /\ n_max' = max_length
          /\ n_summary' = GenerateSummary(n_news[1].content, max_length)
    /\ n_pc' = "summarised"
    /\ UNCHANGED <<n_args, n_news, n_relevant>>
    /\ UNCHANGED newsOthers

\* news.is_relevant_to_adam_sandler()
NewsIsRelevant ==
    /\ n_pc = "constructed"
    /\ n_relevant' = IsRelevantToAdamSandler(n_news[1])
    /\ n_pc' = "judged"
    /\ UNCHANGED <<n_args, n_news, n_max, n_summary>>
    /\ UNCHANGED newsOthers

(***************************************************************************)
(* Report                                                                  *)
(***************************************************************************)
\* the News items handed to reports: title and content are texts, url and
\* source are atoms, published_date is a day number
ReportTitles == {"Relatorio A", "Relatorio B"}
Timestamps == {1, 2}
SourceOf(url) == IF url = "u1" THEN "BBC News" ELSE "CNN"

\* News.ai_analysis: None, or the dict the analysis collaborator returns,
\* with its 'success' flag and its 'analysis' text
NoAnalysis == [present |-> FALSE, success |-> FALSE, has_text |-> FALSE, analysis |-> <<>>]

\* the dict of a successful analysis
SuccessPayload ==
    [present |-> TRUE, success |-> TRUE, has_text |-> TRUE,
     analysis |-> <<"R", "e", "s", "u", "m", "o">>]

\* a dict with a true 'success' and no 'analysis'
SuccessWithoutText ==
    [present |-> TRUE, success |-> TRUE, has_text |-> FALSE, analysis |-> <<>>]

\* the dict of a failed analysis
FailurePayload ==
    [present |-> TRUE, success |-> FALSE, has_text |-> TRUE,
     analysis |-> <<"E", "r", "r", "o">>]

\* the body of the item titled t at url: the item at u1 has its title as
\* body (what the extractor falls back to), the item at u2 a text of its own
BodyOf(t, url) == IF url = "u1" THEN t ELSE <<"b", "o", "d", "y", ".">>

\* News(title, content, url, source, published_date, ai_analysis=...)
Item(t, body, u, date, ai) ==
    [title |-> t, content |-> body, url |-> u, source |-> SourceOf(u),
     published_date |-> date, ai_analysis |-> ai]

\* the first title at each url twice: at u1 with two publish dates, at u2
\* with two bodies, one of them analysed without text; the second title
\* with an analysis, successful at u1 and failed at u2
NewsItems ==
    { Item(<<"t", "1">>, BodyOf(<<"t", "1">>, "u1"), "u1", 1, NoAnalysis),
      Item(<<"t", "1">>, BodyOf(<<"t", "1">>, "u1"), "u1", 2, NoAnalysis),
      Item(<<"t", "1">>, BodyOf(<<"t", "1">>, "u2"), "u2", 1, NoAnalysis),
      Item(<<"t", "1">>, <<"m", "o", "r", "e", ".">>, "u2", 1, SuccessWithoutText),
      Item(<<"t", "2">>, BodyOf(<<"t", "2">>, "u1"), "u1", 1, SuccessPayload),
      Item(<<"t", "2">>, BodyOf(<<"t", "2">>, "u2"), "u2", 1, FailurePayload) }

\* the lists given to add_multiple_news
NewsLists == {<<>>} \cup {<<a, b>> : a \in NewsItems, b \in NewsItems}

InSeq(x, seq) == \E i \in 1..Len(seq) : seq[i] = x

\* add_news without the membership test
AddNewsAlways(news_list, news) == Append(news_list, news)

\* Report.add_news: append unless an equal item is already in the list
AddNews(news_list, news) ==
    IF InSeq(news, news_list) THEN news_list ELSE Append(news_list, news)

\* Report.add_multiple_news: add_news for each item in turn
RECURSIVE AddMultipleNews(_, _)
AddMultipleNews(news_list, items) ==
    IF items = <<>> THEN news_list
    ELSE AddMultipleNews(AddNews(news_list, Head(items)), Tail(items))

\* Report.get_sources_summary: the dict source -> count, as the sequence
\* of its <<source, count>> entries in insertion order
RECURSIVE GetSourcesSummary(_)
GetSourcesSummary(news_list) ==
    IF news_list = <<>> THEN <<>>
    ELSE LET before == GetSourcesSummary(SubSeq(news_list, 1, Len(news_list) - 1))
             src == news_list[Len(news_list)].source
         IN  IF \E i \in 1..Len(before) : before[i][1] = src
             THEN [i \in 1..Len(before) |->
                      IF before[i][1] = src THEN <<src, before[i][2] + 1>> ELSE before[i]]
             ELSE Append(before, <<src, 1>>)

\* the sentence generate_summary returns for a report without news
NoNewsSentence == "Nenhuma noticia encontrada sobre Adam Sandler."

\* how many news generate_summary lists
SummaryTop == 5

\* news_list[:k]
Take(seq, k) == SubSeq(seq, 1, IF Len(seq) < k THEN Len(seq) ELSE k)

\* the numbered entry of news in the summary: "{i}. {title}", "Fonte:",
\* "Data:" and "URL:" lines
SummaryEntry(i, news) ==
    [kind |-> "entry", n |-> i, title |-> news.title, source |-> news.source,
     date |-> news.published_date, url |-> news.url]

\* generate_summary with the trailing line written from 5 news on
ReportSummaryTrailerFromFive(generated_at, news_list) ==
    IF news_list = <<>> THEN <<[kind |-> "none", text |-> NoNewsSentence]>>
    ELSE LET total_news == Len(news_list)
             top == Take(news_list, SummaryTop)
         IN  <<[kind |-> "header", generated_at |-> generated_at, total |-> total_news,
                sources |-> GetSourcesSummary(news_list)]>>
             \o [i \in 1..Len(top) |-> SummaryEntry(i, top[i])]
             \o (IF total_news >= SummaryTop
                 THEN <<[kind |-> "more", count |-> total_news - SummaryTop]>>
                 ELSE <<>>)

\* generate_summary without the early return for an empty news_list
ReportSummaryNoEmptyCase(generated_at, news_list) ==
    LET total_news == Len(news_list)
        top == Take(news_list, SummaryTop)
    IN  <<[kind |-> "header", generated_at |-> generated_at, total |-> total_news,
           sources |-> GetSourcesSummary(news_list)]>>
        \o [i \in 1..Len(top) |-> SummaryEntry(i, top[i])]
        \o (IF total_news > SummaryTop
            THEN <<[kind |-> "more", count |-> total_news - SummaryTop]>>
            ELSE <<>>)

\* Report.generate_summary: the text, as the sequence of its parts: the
\* fixed sentence, or the header block, the numbered entries of the first
\* 5 news and the "... e mais N noticias." line
ReportSummary(generated_at, news_list) ==
    IF news_list = <<>> THEN <<[kind |-> "none", text |-> NoNewsSentence]>>
    ELSE LET total_news == Len(news_list)
             top == Take(news_list, SummaryTop)
         IN  <<[kind |-> "header", generated_at |-> generated_at, total |-> total_news,
                sources |-> GetSourcesSummary(news_list)]>>
             \o [i \in 1..Len(top) |-> SummaryEntry(i, top[i])]
             \o (IF total_news > SummaryTop
                 THEN <<[kind |-> "more", count |-> total_news - SummaryTop]>>
                 ELSE <<>>)

\* the max_length generate_summary has when called without argument
DefaultMaxLength == 200

\* the heading to_html writes above the news
NewsFoundHeading == "Noticias Encontradas:"

\* the text get_ai_analysis_text gives for a payload without 'analysis'
AnalysisUnavailable == <<"A", "n", "a", "l", "i", "s", "e", " ", "n", "a", "o", " ",
                         "d", "i", "s", "p", "o", "n", "i", "v", "e", "l">>

\* the text get_ai_analysis_text gives without a successful analysis
AnalysisNotDone == <<"A", "n", "a", "l", "i", "s", "e", " ", "n", "a", "o", " ",
                     "r", "e", "a", "l", "i", "z", "a", "d", "a">>

\* has_ai_analysis that looks at the presence of the dict only
HasAiAnalysisIfPresent(news) == news.ai_analysis.present

\* News.has_ai_analysis: ai_analysis is not None and its 'success' is true
HasAiAnalysis(news) == news.ai_analysis.present /\ news.ai_analysis.success

\* News.get_ai_analysis_text
GetAiAnalysisText(news) ==
    IF HasAiAnalysis(news)
    THEN IF news.ai_analysis.has_text THEN news.ai_analysis.analysis
         ELSE AnalysisUnavailable
    ELSE AnalysisNotDone

\* the <div class="news-item"> of one news in to_html: the title, the
\* "Fonte | Data | link" line, news.generate_summary() and, when
\* has_ai_analysis(), the <div class="ai-analysis"> with the analysis text
NewsItemBlock(news) ==
    [kind |-> "news-item", news_title |-> news.title, source |-> news.source,
     date |-> news.published_date, href |-> news.url,
     news_summary |-> GenerateSummary(news.content, DefaultMaxLength),
     ai_analysis |-> IF HasAiAnalysis(news) THEN <<GetAiAnalysisText(news)>> ELSE <<>>]

\* Report.to_html: the document, as the sequence of its parts: <title>,
\* the header block, the sources list, the heading and one block per news
ToHtml(title, generated_at, news_list) ==
    <<[kind |-> "title", text |-> title],
      [kind |-> "header", h1 |-> title, generated_at |-> generated_at,
       total |-> Len(news_list)],
      [kind |-> "sources-summary", sources |-> GetSourcesSummary(news_list)],
      [kind |-> "h2", text |-> NewsFoundHeading]>>
    \o [i \in 1..Len(news_list) |-> NewsItemBlock(news_list[i])]

\* no Report exists
ReportIdle ==
    /\ r_pc = "off"
    /\ r_title = ""
    /\ r_generated_at = 0
    /\ r_news_list = <<>>
    /\ r_summary = <<>>
    /\ r_html = <<>>
    /\ r_metadata = <<>>

\* Report(title=..., generated_at=...): news_list defaults to the empty
\* list; __post_init__ accepts a non-blank title
ReportInit ==
    /\ r_pc = "open"
    /\ r_title \in ReportTitles
    /\ r_generated_at \in Timestamps
    /\ r_news_list = <<>>
    /\ r_summary = <<>>
    /\ r_html = <<>>
    /\ r_metadata = <<>>

\* report.add_news(news)
ReportAddNews ==
    /\ r_pc = "open"
    /\ \E news \in NewsItems :
          /\ r_news_list' = AddNews(r_news_list, news)
    /\ UNCHANGED <<r_pc, r_title, r_generated_at, r_summary, r_html, r_metadata>>
    /\ UNCHANGED reportOthers

\* report.add_multiple_news(items)
ReportAddMultipleNews ==
    /\ r_pc = "open"
    /\ \E items \in NewsLists :
          /\ r_news_list' = AddMultipleNews(r_news_list, items)
    /\ UNCHANGED <<r_pc, r_title, r_generated_at, r_summary, r_html, r_metadata>>
    /\ UNCHANGED reportOthers

\* report.generate_summary()
ReportGenerateSummary ==
    /\ r_pc = "open"
    /\ r_summary' = ReportSummary(r_generated_at, r_news_list)
    /\ r_pc' = "summarised"
    /\ UNCHANGED <<r_title, r_generated_at, r_news_list, r_html, r_metadata>>
    /\ UNCHANGED reportOthers

\* report.to_html()
ReportToHtml ==
    /\ r_pc = "open"
    /\ r_html' = ToHtml(r_title, r_generated_at, r_news_list)
    /\ r_pc' = "rendered"
    /\ UNCHANGED <<r_title, r_generated_at, r_news_list, r_summary, r_metadata>>
    /\ UNCHANGED reportOthers

(***************************************************************************)
(* BBCScraper.search_adam_sandler_news                                     *)
(***************************************************************************)
\* what session.get(url, ...) comes back with: a response with a status,
\* asyncio.TimeoutError, or another exception (aiohttp.ClientError, ...)
HttpStatuses == {200, 404, 500}
Responses ==
    {[kind |-> "response", status |-> st] : st \in HttpStatuses}
    \cup {[kind |-> "timeout", status |-> 0], [kind |-> "error", status |-> 0]}
NoResponse == [kind |-> "none", status |-> 0]

\* the items a results page can yield
PageItems == {"a1", "a2"}

RECURSIVE SeqsUpTo(_, _)
SeqsUpTo(S, n) ==
    IF n = 0 THEN {<<>>}
    ELSE LET shorter == SeqsUpTo(S, n - 1)
         IN  shorter \cup {Append(q, x) : q \in {t \in shorter : Len(t) = n - 1}, x \in S}

\* response.text() followed by _parse_search_results(html, max_results,
\* session): an exception, or a list of at most max_results items
ParseOutcomes(max_results) ==
    {[raised |-> TRUE, items |-> <<>>]}
    \cup {[raised |-> FALSE, items |-> l] : l \in SeqsUpTo(PageItems, max_results)}

\* a failed search that is tried again while attempts are left
AfterFailureRetry(requests, retry_attempts) ==
    IF requests <= retry_attempts THEN "ready" ELSE "returned"

\* where search_adam_sandler_news goes after a non-200 status, a timeout
\* or an exception: each branch returns the empty list
AfterFailure(requests, retry_attempts) == "returned"

\* the except clause of search_adam_sandler_news that takes an exception:
\* asyncio.TimeoutError has its own clause, "except Exception" takes
\* every other one
ExceptClause(exception) ==
    IF exception = "timeout" THEN "except TimeoutError" ELSE "except Exception"

\* the query the extractor searches for, which is also the one
\* fetch_all_adam_sandler_news and get_latest_news pass
AdamSandler == <<"A", "d", "a", "m", " ", "S", "a", "n", "d", "l", "e", "r">>

\* the queries callers pass to search_news and fetch_news_from_source
Queries ==
    {AdamSandler, <<"H", "a", "p", "p", "y", " ", "G", "i", "l", "m", "o", "r", "e">>}

\* urllib.parse.quote of one character: letters, digits and "_.-~/" stay,
\* a space becomes %20 and an ampersand %26
QuoteChar(c) ==
    IF c = " " THEN <<"%", "2", "0">>
    ELSE IF c = "&" THEN <<"%", "2", "6">>
    ELSE <<c>>

\* urllib.parse.quote(text)
RECURSIVE Quote(_)
Quote(text) == IF text = <<>> THEN <<>> ELSE QuoteChar(Head(text)) \o Quote(Tail(text))

\* BBCScraper.search_url
SearchEndpoint ==
    <<"h", "t", "t", "p", "s", ":", "/", "/", "w", "w", "w", ".", "b", "b", "c", ".",
      "c", "o", "m", "/", "s", "e", "a", "r", "c", "h">>

\* the url search_adam_sandler_news requests when fetch_news_from_source
\* was called with query: query is not handed to the extractor, which
\* searches for its own term
SearchUrl(query) == SearchEndpoint \o <<"?", "q", "=">> \o Quote(AdamSandler)

\* no search is running
SearchIdle ==
    /\ s_pc = "off"
    /\ s_session_open = FALSE
    /\ s_retry = 0
    /\ s_max_results = 0
    /\ s_query = <<>>
    /\ s_url = <<>>
    /\ s_requests = 0
    /\ s_response = NoResponse
    /\ s_handler = "none"
    /\ s_result = <<>>

\* the call search_adam_sandler_news(session, max_results) on a source
\* whose configuration holds retry_attempts
SearchInit ==
    /\ s_pc = "ready"
    /\ s_session_open \in BOOLEAN
    /\ s_retry \in 0..MaxRetry
    /\ s_max_results \in 1..MaxResults
    /\ s_query \in Queries
    /\ s_url = <<>>
    /\ s_requests = 0
    /\ s_response = NoResponse
    /\ s_handler = "none"
    /\ s_result = <<>>

\* the url is built and session.get(url, headers, timeout=30) is issued; a
\* closed session raises at once
SearchIssue ==
    /\ s_pc = "ready"
    /\ s_url' = SearchUrl(s_query)
    /\ s_requests' = s_requests + 1
    /\ \E resp \in Responses :
          /\ ~s_session_open => resp.kind = "error"
          /\ s_response' = resp
    /\ s_pc' = "awaiting"
    /\ UNCHANGED <<s_session_open, s_retry, s_max_results, s_query, s_handler, s_result>>
    /\ UNCHANGED searchOthers

\* the rest of the call: the status test, response.text(), the parse, and
\* the two except clauses
SearchHandle ==
    /\ s_pc = "awaiting"
    /\ \E parsed \in ParseOutcomes(s_max_results) :
          IF s_response.kind = "response" /\ s_response.status = 200 /\ ~parsed.raised
          THEN /\ s_handler' = "parsed"
               /\ s_result' = parsed.items
               /\ s_pc' = "returned"
          ELSE LET handler ==
                       IF s_response.kind = "response" /\ s_response.status # 200
                       THEN "status"
                       ELSE IF s_response.kind = "response"
                            THEN ExceptClause("parse")
                            ELSE ExceptClause(s_response.kind)
               IN  /\ s_handler' = handler
                   /\ s_result' = <<>>
                   /\ s_pc' = IF handler = "uncaught" THEN "raised"
                              ELSE AfterFailure(s_requests, s_retry)
    /\ s_response' = NoResponse
    /\ UNCHANGED <<s_session_open, s_retry, s_max_results, s_query, s_url, s_requests>>
    /\ UNCHANGED searchOthers

(***************************************************************************)
(* WebScrapingNewsRepository                                               *)
(***************************************************************************)
\* the names sources are registered under, and the names descriptors carry
BBCName == "BBC News"
SourceKeys == {BBCName, "CNN"}
WebScraping == "web_scraping"

\* scraper.get_news_source(): raises, or returns a NewsSource with a name
\* and a source_type
Descriptors ==
    { [raises |-> TRUE, name |-> "", source_type |-> ""],
      [raises |-> FALSE, name |-> BBCName, source_type |-> WebScraping],
      [raises |-> FALSE, name |-> "CNN", source_type |-> WebScraping],
      [raises |-> FALSE, name |-> "Variety", source_type |-> WebScraping],
      [raises |-> FALSE, name |-> "CNN", source_type |-> "rss"] }

\* scraper.search_adam_sandler_news(session, max_results): raises, or
\* returns a list of News, given here by their urls
NewsUrls == {"u1", "u2"}
Extractions ==
    {[raises |-> TRUE, urls |-> <<>>]}
    \cup {[raises |-> FALSE, urls |-> l] : l \in SeqsUpTo(NewsUrls, MaxItems)}

\* the objects add_scraper can be given
Scrapers == {[descriptor |-> d, extraction |-> x] : d \in Descriptors, x \in Extractions}

\* BBCScraper(): its get_news_source returns the BBC News descriptor and
\* its search_adam_sandler_news returns a list, never raising
BBCScrapers ==
    {sc \in Scrapers : /\ sc.descriptor = [raises |-> FALSE, name |-> BBCName,
                                           source_type |-> WebScraping]
                       /\ ~sc.extraction.raises}

\* the title of the article at url
TitleAt(url) == IF url = "u1" THEN <<"t", "1">> ELSE <<"t", "2">>

\* the News the scraper registered under key returns: the i-th one has
\* the i-th url, the title and body of the article there and the
\* scraper's source name; owner and pos tell where the News comes from
ItemsOf(key, scraper) ==
    [i \in 1..Len(scraper.extraction.urls) |->
        [title |-> TitleAt(scraper.extraction.urls[i]),
         content |-> BodyOf(TitleAt(scraper.extraction.urls[i]), scraper.extraction.urls[i]),
         url |-> scraper.extraction.urls[i], source |-> key, published_date |-> 1,
         ai_analysis |-> NoAnalysis,
         owner |-> key, pos |-> i]]

\* self.scrapers.get(name): the position of the entry, 0 for None
Lookup(registry, name) ==
    IF \E i \in 1..Len(registry) : registry[i].key = name
    THEN CHOOSE i \in 1..Len(registry) : registry[i].key = name
    ELSE 0

\* self.scrapers[source_name] = scraper: an existing key keeps its place
SetScraper(registry, key, scraper) ==
    IF Lookup(registry, key) # 0
    THEN [registry EXCEPT ![Lookup(registry, key)] = [key |-> key, scraper |-> scraper]]
    ELSE Append(registry, [key |-> key, scraper |-> scraper])

\* fetch_news_from_source(source, query): ValueError for a source that is
\* not web scraping or has no scraper; the BBC News scraper's list, or the
\* empty list when that scraper raises; the empty list for any other name
FetchNewsFromSource(registry, source) ==
    IF source.source_type # WebScraping
    THEN [raises |-> TRUE, searched |-> "", caught |-> FALSE, items |-> <<>>]
    ELSE IF Lookup(registry, source.name) = 0
    THEN [raises |-> TRUE, searched |-> "", caught |-> FALSE, items |-> <<>>]
    ELSE LET entry == registry[Lookup(registry, source.name)]
         IN  IF source.name = BBCName
             THEN IF entry.scraper.extraction.raises
                  THEN [raises |-> FALSE, searched |-> entry.key, caught |-> TRUE,
                        items |-> <<>>]
                  ELSE [raises |-> FALSE, searched |-> entry.key, caught |-> FALSE,
                        items |-> ItemsOf(entry.key, entry.scraper)]
             ELSE [raises |-> FALSE, searched |-> "", caught |-> FALSE, items |-> <<>>]

\* the loop body of fetch_all_adam_sandler_news for one entry: what it
\* adds to all_news and what it did
SourceStep(registry, i) ==
    LET entry == registry[i]
        d == entry.scraper.descriptor
    IN  IF d.raises
        THEN [key |-> entry.key, failed |-> "get_news_source", searched |-> "",
              items |-> <<>>, paused |-> FALSE]
        ELSE LET r == FetchNewsFromSource(registry, d)
             IN  IF r.raises
                 THEN [key |-> entry.key, failed |-> "fetch_news_from_source",
                       searched |-> "", items |-> <<>>, paused |-> FALSE]
                 ELSE [key |-> entry.key,
                       failed |-> IF r.caught THEN "search_adam_sandler_news" ELSE "",
                       searched |-> r.searched, items |-> r.items, paused |-> TRUE]

\* all_news.extend(news_list) for each list in turn
RECURSIVE Concat(_)
Concat(lists) == IF lists = <<>> THEN <<>> ELSE Head(lists) \o Concat(Tail(lists))

\* fetch_news_from_source gets to its _get_session() call: the source is
\* a web-scraping one and a scraper is registered under its name
ReachesGetSession(registry, i) ==
    LET d == registry[i].scraper.descriptor
    IN  /\ ~d.raises
        /\ d.source_type = WebScraping
        /\ Lookup(registry, d.name) # 0

\* search_news(query): the lists fetch_news_from_source yields for the
\* entries of self.scrapers, one after the other; query plays no part
SearchNews(registry, query) ==
    Concat([i \in 1..Len(registry) |-> SourceStep(registry, i).items])

\* a _get_session that makes a new ClientSession at every call
GetSessionAlwaysNew(held, open) == [session |-> "open", open_sessions |-> open + 1]

\* _get_session: a new ClientSession when self.session is None or closed,
\* the held one otherwise
GetSession(held, open) ==
    IF held = "none" \/ held = "closed"
    THEN [session |-> "open", open_sessions |-> open + 1]
    ELSE [session |-> held, open_sessions |-> open]

\* the calls of the loop body whose exception reaches the loop's except
\* clause (search_adam_sandler_news is caught in fetch_news_from_source)
RaisesInLoop(failed) == failed \in {"get_news_source", "fetch_news_from_source"}

\* a loop that stops at the first entry that raises
AfterSourceBreak(i, n, failed) ==
    [pc |-> "loop", idx |-> IF RaisesInLoop(failed) THEN n + 1 ELSE i + 1]

\* where the loop goes after entry i of n: "except Exception" around the
\* whole body catches what the entry raised, and the loop continues with
\* the next entry
AfterSource(i, n, failed) == [pc |-> "loop", idx |-> i + 1]

\* no de-duplication: every News is kept
UniqueKeepAll(news, unique, seen_urls) == unique \o news

\* a de-duplication that keeps the last News of each url
RECURSIVE UniqueKeepLast(_, _, _)
UniqueKeepLast(news, unique, seen_urls) ==
    IF news = <<>> THEN unique
    ELSE IF \E j \in 1..Len(Tail(news)) : Tail(news)[j].url = Head(news).url
         THEN UniqueKeepLast(Tail(news), unique, seen_urls)
         ELSE UniqueKeepLast(Tail(news), Append(unique, Head(news)), seen_urls)

\* the de-duplication loop of fetch_all_adam_sandler_news: the News left,
\* unique_news and seen_urls so far
RECURSIVE Unique(_, _, _)
Unique(news, unique, seen_urls) ==
    IF news = <<>> THEN unique
    ELSE IF Head(news).url \notin seen_urls
         THEN Unique(Tail(news), Append(unique, Head(news)), seen_urls \cup {Head(news).url})
         ELSE Unique(Tail(news), unique, seen_urls)

\* the metadata in which every count is the number of registered sources
MetadataOfSources(registry, news_list, relevant_news, report_news) ==
    [total_sources_consulted |-> Len(registry), total_news_found |-> Len(registry),
     relevant_news_count |-> Len(registry),
     sources_summary |-> GetSourcesSummary(report_news)]

\* report.metadata of generate_adam_sandler_report (generation_time left out)
Metadata(registry, news_list, relevant_news, report_news) ==
    [total_sources_consulted |-> Len(registry), total_news_found |-> Len(news_list),
     relevant_news_count |-> Len(relevant_news),
     sources_summary |-> GetSourcesSummary(report_news)]

\* generate_adam_sandler_report after fetch_all_adam_sandler_news gave
\* news_list: the relevant news, the Report holding them, its summary and
\* its metadata
GenerateAdamSandlerReport(registry, news_list, title, now) ==
    LET relevant_news == SelectSeq(news_list, IsRelevantToAdamSandler)
        report_news == AddMultipleNews(<<>>, relevant_news)
    IN  [title |-> title, generated_at |-> now, news_list |-> report_news,
         summary |-> ReportSummary(now, report_news),
         metadata |-> Metadata(registry, news_list, relevant_news, report_news)]

\* generate_adam_sandler_report_from_news(news_list, title) at the time
\* now: the Report holding the news, its summary and its metadata, in
\* which relevant_news_count is len(news_list)
GenerateAdamSandlerReportFromNews(registry, news_list, title, now) ==
    LET report_news == AddMultipleNews(<<>>, news_list)
    IN  [title |-> title, generated_at |-> now, news_list |-> report_news,
         summary |-> ReportSummary(now, report_news),
         metadata |-> Metadata(registry, news_list, news_list, report_news)]

\* report_service.generate_adam_sandler_report_from_news(news_list, title):
\* the Report(title, generated_at) it creates is the report of the model
ServiceReportFromNews ==
    /\ r_pc = "open"
    /\ r_news_list = <<>>
    /\ \E news_list \in NewsLists :
          LET report == GenerateAdamSandlerReportFromNews(scrapers, news_list, r_title,
                                                          r_generated_at)
          IN  /\ r_news_list' = report.news_list
              /\ r_summary' = report.summary
              /\ r_metadata' = <<report.metadata>>
    /\ r_pc' = "generated"
    /\ UNCHANGED <<r_title, r_generated_at, r_html>>
    /\ UNCHANGED reportOthers

\* no repository exists
RepoIdle ==
    /\ scrapers = <<>>
    /\ session = "none"
    /\ open_sessions = 0
    /\ l_limit = 0
    /\ g_report = <<>>
    /\ g_sent = <<>>
    /\ f_pc = "off"
    /\ f_idx = 0
    /\ all_news = <<>>
    /\ f_log = <<>>
    /\ unique_news = <<>>

\* WebScrapingNewsRepository(): one scraper, BBCScraper(), and no session
RepoInit ==
    /\ \E bbc \in BBCScrapers : scrapers = <<[key |-> BBCName, scraper |-> bbc]>>
    /\ session = "none"
    /\ open_sessions = 0
    /\ l_limit = 0
    /\ g_report = <<>>
    /\ g_sent = <<>>
    /\ f_pc = "idle"
    /\ f_idx = 0
    /\ all_news = <<>>
    /\ f_log = <<>>
    /\ unique_news = <<>>

\* add_scraper(source_name, scraper)
AddScraper ==
    /\ f_pc = "idle"
    /\ \E key \in SourceKeys, scraper \in Scrapers :
          scrapers' = SetScraper(scrapers, key, scraper)
    /\ UNCHANGED <<session, open_sessions, f_pc, f_idx, all_news, f_log, unique_news>>
    /\ UNCHANGED <<l_limit, g_report, g_sent>>
    /\ UNCHANGED repoOthers

\* close_session(): closes the held session if it is open
CloseSession ==
    /\ f_pc = "idle"
    /\ session = "open"
    /\ session' = "closed"
    /\ open_sessions' = open_sessions - 1
    /\ UNCHANGED <<scrapers, f_pc, f_idx, all_news, f_log, unique_news>>
    /\ UNCHANGED <<l_limit, g_report, g_sent>>
    /\ UNCHANGED repoOthers

\* fetch_all_adam_sandler_news, up to the loop: all_news = [] and
\* _get_session(), which opens a session unless an open one is held
FetchAllBegin ==
    /\ f_pc = "idle"
    /\ all_news' = <<>>
    /\ session' = GetSession(session, open_sessions).session
    /\ open_sessions' = GetSession(session, open_sessions).open_sessions
    /\ f_idx' = 1
    /\ f_log' = <<>>
    /\ unique_news' = <<>>
    /\ f_pc' = "loop"
    /\ UNCHANGED scrapers
    /\ UNCHANGED <<l_limit, g_report, g_sent>>
    /\ UNCHANGED repoOthers

\* one pass of the loop over self.scrapers.items()
FetchAllSource ==
    /\ f_pc = "loop"
    /\ f_idx <= Len(scrapers)
    /\ LET step == SourceStep(scrapers, f_idx)
       IN  /\ all_news' = all_news \o step.items
           /\ f_log' = Append(f_log, [key |-> step.key, failed |-> step.failed,
                                      searched |-> step.searched, paused |-> step.paused])
           /\ f_idx' = AfterSource(f_idx, Len(scrapers), step.failed).idx
           /\ f_pc' = AfterSource(f_idx, Len(scrapers), step.failed).pc
    /\ UNCHANGED <<scrapers, session, open_sessions, unique_news>>
    /\ UNCHANGED <<l_limit, g_report, g_sent>>
    /\ UNCHANGED repoOthers

\* after the loop: the de-duplication by url and the return
FetchAllFinish ==
    /\ f_pc = "loop"
    /\ f_idx > Len(scrapers)
    /\ unique_news' = Unique(all_news, <<>>, {})
    /\ f_pc' = "done"
    /\ UNCHANGED <<scrapers, session, open_sessions, f_idx, all_news, f_log>>
    /\ UNCHANGED <<l_limit, g_report, g_sent>>
    /\ UNCHANGED repoOthers

\* the caller has the list; the repository is ready for the next call
FetchAllReturn ==
    /\ f_pc = "done"
    /\ f_pc' = "idle"
    /\ f_idx' = 0
    /\ all_news' = <<>>
    /\ f_log' = <<>>
    /\ unique_news' = <<>>
    /\ UNCHANGED <<scrapers, session, open_sessions>>
    /\ UNCHANGED <<l_limit, g_report, g_sent>>
    /\ UNCHANGED repoOthers

\* the searches open a session when some entry gets to _get_session
AfterSearchSession(registry, held, open) ==
    IF \E i \in 1..Len(registry) : ReachesGetSession(registry, i)
    THEN GetSession(held, open)
    ELSE [session |-> held, open_sessions |-> open]

\* search_news(query)
SearchNewsCall ==
    /\ f_pc = "idle"
    /\ all_news' = SearchNews(scrapers, AdamSandler)
    /\ session' = AfterSearchSession(scrapers, session, open_sessions).session
    /\ open_sessions' = AfterSearchSession(scrapers, session, open_sessions).open_sessions
    /\ f_pc' = "searched"
    /\ UNCHANGED <<scrapers, f_idx, f_log, unique_news, l_limit, g_report, g_sent>>
    /\ UNCHANGED repoOthers

\* get_latest_news(limit): search_news("Adam Sandler")
GetLatestNews ==
    /\ f_pc = "idle"
    /\ \E limit \in 1..MaxLatest : l_limit' = limit
    /\ all_news' = SearchNews(scrapers, AdamSandler)
    /\ session' = AfterSearchSession(scrapers, session, open_sessions).session
    /\ open_sessions' = AfterSearchSession(scrapers, session, open_sessions).open_sessions
    /\ f_pc' = "latest"
    /\ UNCHANGED <<scrapers, f_idx, f_log, unique_news, g_report, g_sent>>
    /\ UNCHANGED repoOthers

\* the caller of search_news or get_latest_news has the list
SearchReturn ==
    /\ f_pc \in {"searched", "latest"}
    /\ f_pc' = "idle"
    /\ all_news' = <<>>
    /\ l_limit' = 0
    /\ UNCHANGED <<scrapers, session, open_sessions, f_idx, f_log, unique_news,
                   g_report, g_sent>>
    /\ UNCHANGED repoOthers

\* generate_adam_sandler_report(title), from the return of
\* fetch_all_adam_sandler_news on
ServiceGenerateReport ==
    /\ f_pc = "done"
    /\ \E title \in ReportTitles, now \in Timestamps :
          g_report' = <<GenerateAdamSandlerReport(scrapers, unique_news, title, now)>>
    /\ f_pc' = "reported"
    /\ UNCHANGED <<scrapers, session, open_sessions, f_idx, all_news, f_log, unique_news,
                   l_limit, g_sent>>
    /\ UNCHANGED repoOthers

\* email_repository.send_html_report(report, recipient_email): the
\* message gets report.generate_summary() as text part and
\* report.to_html() as html part
ServiceSendHtmlReport ==
    /\ f_pc = "reported"
    /\ g_sent' = <<[text |-> ReportSummary(g_report[1].generated_at, g_report[1].news_list),
                    html |-> ToHtml(g_report[1].title, g_report[1].generated_at,
                                    g_report[1].news_list)]>>
    /\ f_pc' = "sent"
    /\ UNCHANGED <<scrapers, session, open_sessions, f_idx, all_news, f_log, unique_news,
                   l_limit, g_report>>
    /\ UNCHANGED repoOthers

\* generate_and_send_report returns
ServiceReturn ==
    /\ f_pc = "sent"
    /\ f_pc' = "idle"
    /\ f_idx' = 0
    /\ all_news' = <<>>
    /\ f_log' = <<>>
    /\ unique_news' = <<>>
    /\ g_report' = <<>>
    /\ g_sent' = <<>>
    /\ UNCHANGED <<scrapers, session, open_sessions, l_limit>>
    /\ UNCHANGED repoOthers

(***************************************************************************)
(* NewsAggregatorUseCase                                                   *)
(***************************************************************************)
\* the operations of the use case that reach the repository
UseCaseOps ==
    {"execute_daily_news_report", "execute_news_search_only",
     "execute_report_generation_only", "get_system_status"}

\* where the body of an operation can fail: the recipient is refused
\* (daily report only), something raises before _get_session has made a
\* session, or something raises after it (the send, the save, the
\* connection test)
FailuresOf(op) ==
    {"none", "before_session", "after_session"}
    \cup (IF op = "execute_daily_news_report" THEN {"invalid_email"} ELSE {})

\* the body of op gets a session from the repository: the three
\* operations built on fetch_all_adam_sandler_news call _get_session
\* first thing, get_system_status gets to it through
\* get_report_statistics, get_latest_news(50) and fetch_news_from_source
BodyGetsSession(op, fail, registry) ==
    IF fail \in {"invalid_email", "before_session"} THEN FALSE
    ELSE IF op = "get_system_status"
         THEN \E i \in 1..Len(registry) : ReachesGetSession(registry, i)
         ELSE TRUE

\* the operations that end with "finally: await close_session()"
HasFinally(op) ==
    op \in {"execute_daily_news_report", "execute_news_search_only",
            "execute_report_generation_only"}

\* close_session on the repository: closes the held session if it is open
AfterClose(held, open) ==
    IF held = "open"
    THEN [session |-> "closed", open_sessions |-> open - 1]
    ELSE [session |-> held, open_sessions |-> open]

\* no use case exists
UseCaseIdle ==
    /\ u_pc = "off"
    /\ u_op = "none"
    /\ u_fail = "none"
    /\ u_result = "none"

\* NewsAggregatorUseCase(news_repository, email_repository)
UseCaseInit ==
    /\ u_pc = "idle"
    /\ u_op = "none"
    /\ u_fail = "none"
    /\ u_result = "none"

\* the try block of an operation, up to its return statement or to the
\* except clause that takes what it raised
UseCaseBody ==
    /\ u_pc = "idle"
    /\ \E op \in UseCaseOps :
          \E fail \in FailuresOf(op) :
             /\ u_op' = op
             /\ u_fail' = fail
             /\ u_result' = IF fail = "none" THEN "success" ELSE "failure"
             /\ IF BodyGetsSession(op, fail, scrapers)
                THEN /\ session' = GetSession(session, open_sessions).session
                     /\ open_sessions' = GetSession(session, open_sessions).open_sessions
                ELSE UNCHANGED <<session, open_sessions>>
    /\ u_pc' = "body"
    /\ UNCHANGED <<scrapers, f_pc, f_idx, all_news, f_log, unique_news, l_limit,
                   g_report, g_sent>>
    /\ UNCHANGED useCaseOthers

\* the finally block, where the operation has one, and the return
UseCaseFinally ==
    /\ u_pc = "body"
    /\ IF HasFinally(u_op)
       THEN /\ session' = AfterClose(session, open_sessions).session
            /\ open_sessions' = AfterClose(session, open_sessions).open_sessions
       ELSE UNCHANGED <<session, open_sessions>>
    /\ u_pc' = "returned"
    /\ UNCHANGED <<u_op, u_fail, u_result>>
    /\ UNCHANGED <<scrapers, f_pc, f_idx, all_news, f_log, unique_news, l_limit,
                   g_report, g_sent>>
    /\ UNCHANGED useCaseOthers

\* the caller has the result; the use case is ready for the next call
UseCaseReturn ==
    /\ u_pc = "returned"
    /\ u_pc' = "idle"
    /\ u_op' = "none"
    /\ u_fail' = "none"
    /\ u_result' = "none"
    /\ UNCHANGED repoVars
    /\ UNCHANGED useCaseOthers

(***************************************************************************)
(* BBCScraper._extract_published_date                                      *)
(***************************************************************************)
Digits == <<"0", "1", "2", "3", "4", "5", "6", "7", "8", "9">>

IsDigit(c) == \E d \in 1..10 : Digits[d] = c

DigitValue(c) == (CHOOSE d \in 1..10 : Digits[d] = c) - 1

AllDigits(s) == \A i \in 1..Len(s) : IsDigit(s[i])

\* int(s) of a text of digits
RECURSIVE ToNumber(_)
ToNumber(s) ==
    IF s = <<>> THEN 0
    ELSE 10 * ToNumber(SubSeq(s, 1, Len(s) - 1)) + DigitValue(s[Len(s)])

\* the month names %b and %B match, lower-cased (the match ignores case)
AbbrMonths ==
    << <<"j","a","n">>, <<"f","e","b">>, <<"m","a","r">>, <<"a","p","r">>,
       <<"m","a","y">>, <<"j","u","n">>, <<"j","u","l">>, <<"a","u","g">>,
       <<"s","e","p">>, <<"o","c","t">>, <<"n","o","v">>, <<"d","e","c">> >>

FullMonths ==
    << <<"j","a","n","u","a","r","y">>, <<"f","e","b","r","u","a","r","y">>,
       <<"m","a","r","c","h">>, <<"a","p","r","i","l">>, <<"m","a","y">>,
       <<"j","u","n","e">>, <<"j","u","l","y">>, <<"a","u","g","u","s","t">>,
       <<"s","e","p","t","e","m","b","e","r">>, <<"o","c","t","o","b","e","r">>,
       <<"n","o","v","e","m","b","e","r">>, <<"d","e","c","e","m","b","e","r">> >>

IsLeap(year) == year % 4 = 0 /\ (year % 100 # 0 \/ year % 400 = 0)

DaysIn(year, month) ==
    IF month = 2 THEN (IF IsLeap(year) THEN 29 ELSE 28)
    ELSE IF month \in {4, 6, 9, 11} THEN 30 ELSE 31

\* the tzinfo of a datetime without one; an offset is its text, "+00:00"
Naive == <<>>

\* datetime(year, month, day, hour, minute, second, tzinfo)
DateTime(year, month, day, hour, minute, second, tz) ==
    [year |-> year, month |-> month, day |-> day, hour |-> hour, minute |-> minute,
     second |-> second, tz |-> tz]

\* the outcome of a parse that raised ValueError
NoDate == [ok |-> FALSE, value |-> DateTime(0, 0, 0, 0, 0, 0, Naive)]

IsValidDate(year, month, day) ==
    year >= 1 /\ month \in 1..12 /\ day >= 1 /\ day <= DaysIn(year, month)

NonEmptyText(s) == s # <<>>

\* datetime.strptime(text, "%d <month> %Y"): a day of one or two digits, a
\* month name of the given table and a year of four digits, separated by
\* spaces; ValueError for any other text and for a day the month has not
Strptime(text, months) ==
    LET tokens == SelectSeq(Split(text, <<" ">>), NonEmptyText)
    IN  IF Len(tokens) # 3 THEN NoDate
        ELSE LET d == tokens[1]
                 m == Lower(tokens[2])
                 y == tokens[3]
             IN  IF /\ Len(d) \in 1..2 /\ AllDigits(d)
                    /\ \E k \in 1..12 : months[k] = m
                    /\ Len(y) = 4 /\ AllDigits(y)
                 THEN LET year == ToNumber(y)
                          month == CHOOSE k \in 1..12 : months[k] = m
                          day == ToNumber(d)
                      IN  IF IsValidDate(year, month, day)
                          THEN [ok |-> TRUE,
                                value |-> DateTime(year, month, day, 0, 0, 0, Naive)]
                          ELSE NoDate
                 ELSE NoDate

\* str.replace('Z', '+00:00')
RECURSIVE ReplaceZ(_)
ReplaceZ(s) ==
    IF s = <<>> THEN <<>>
    ELSE (IF Head(s) = "Z" THEN <<"+", "0", "0", ":", "0", "0">> ELSE <<Head(s)>>)
         \o ReplaceZ(Tail(s))

\* the two digits of s at i, i + 1 as a number, -1 if they are not digits
TwoDigits(s, i) ==
    IF i + 1 <= Len(s) /\ IsDigit(s[i]) /\ IsDigit(s[i + 1])
    THEN ToNumber(SubSeq(s, i, i + 1)) ELSE -1

\* datetime.fromisoformat(s) for YYYY-MM-DD, YYYY-MM-DDTHH:MM:SS and
\* YYYY-MM-DDTHH:MM:SS+HH:MM; ValueError otherwise
FromIsoFormat(s) ==
    IF /\ Len(s) \in {10, 19, 25}
       /\ AllDigits(SubSeq(s, 1, 4)) /\ s[5] = "-" /\ s[8] = "-"
       /\ IsValidDate(ToNumber(SubSeq(s, 1, 4)), TwoDigits(s, 6), TwoDigits(s, 9))
       /\ Len(s) >= 19 =>
             /\ s[11] = "T" /\ s[14] = ":" /\ s[17] = ":"
             /\ TwoDigits(s, 12) \in 0..23
             /\ TwoDigits(s, 15) \in 0..59
             /\ TwoDigits(s, 18) \in 0..59
       /\ Len(s) = 25 =>
             /\ s[20] = "+" /\ s[23] = ":"
             /\ TwoDigits(s, 21) \in 0..23
             /\ TwoDigits(s, 24) \in 0..59
    THEN [ok |-> TRUE,
          value |-> DateTime(ToNumber(SubSeq(s, 1, 4)), TwoDigits(s, 6), TwoDigits(s, 9),
                             IF Len(s) >= 19 THEN TwoDigits(s, 12) ELSE 0,
                             IF Len(s) >= 19 THEN TwoDigits(s, 15) ELSE 0,
                             IF Len(s) >= 19 THEN TwoDigits(s, 18) ELSE 0,
                             IF Len(s) = 25 THEN SubSeq(s, 20, 25) ELSE Naive)]
    ELSE NoDate

\* an element that find() did not find
NoElement == [found |-> FALSE, text |-> <<>>]

Element(text) == [found |-> TRUE, text |-> text]

\* the text of <span data-testid="card-metadata-lastupdated">, if any
LastUpdatedTexts ==
    { <<>>,
      <<"2", "2", " ", "A", "u", "g", " ", "2", "0", "1", "7">>,
      <<" ", "2", "2", " ", "A", "u", "g", " ", "2", "0", "1", "7", " ">>,
      <<"2", "2", " ", "A", "u", "g", "u", "s", "t", " ", "2", "0", "1", "7">>,
      <<"2", " ", "M", "a", "y", " ", "2", "0", "1", "7">>,
      <<"3", "1", " ", "F", "e", "b", " ", "2", "0", "1", "7">>,
      <<"4", " ", "h", "r", "s", " ", "a", "g", "o">> }

\* the datetime attribute of the first <time datetime=...>, if any
TimeAttributes ==
    { <<>>,
      <<"2", "0", "1", "7", "-", "0", "8", "-", "2", "3", "T", "1", "0", ":", "0", "0", ":",
        "0", "0", "Z">>,
      <<"2", "0", "1", "7", "-", "0", "8", "-", "2", "3">>,
      <<"2", "3", "/", "0", "8", "/", "2", "0", "1", "7">> }

\* the date elements an article element can have
DateArticles ==
    [lastupdated : {NoElement} \cup {Element(t) : t \in LastUpdatedTexts},
     time : {NoElement} \cup {Element(t) : t \in TimeAttributes}]

\* the values datetime.now() gives
Clock == {DateTime(2025, 1, 15, 9, 30, 0, Naive), DateTime(2025, 1, 16, 9, 30, 0, Naive)}

\* as _extract_published_date, with the <time> attribute tried first
ExtractPublishedDateTimeFirst(article, now) ==
    LET iso == IF article.time.found /\ article.time.text # <<>>
               THEN FromIsoFormat(ReplaceZ(article.time.text)) ELSE NoDate
        date_text == Strip(article.lastupdated.text)
        abbr == Strptime(date_text, AbbrMonths)
    IN  IF iso.ok THEN iso.value
        ELSE IF article.lastupdated.found /\ abbr.ok THEN abbr.value
        ELSE now

\* _extract_published_date(article): the "last updated" text parsed as
\* "%d %b %Y", else as "%d %B %Y"; else the datetime attribute of the
\* <time> element parsed as ISO; else datetime.now()
ExtractPublishedDate(article, now) ==
    LET date_text == Strip(article.lastupdated.text)
        abbr == Strptime(date_text, AbbrMonths)
        full == Strptime(date_text, FullMonths)
        datetime_str == article.time.text
        iso == FromIsoFormat(IF datetime_str[Len(datetime_str)] = "Z"
                             THEN ReplaceZ(datetime_str) ELSE datetime_str)
    IN  IF article.lastupdated.found /\ date_text # <<>> /\ abbr.ok THEN abbr.value
        ELSE IF article.lastupdated.found /\ date_text # <<>> /\ full.ok THEN full.value
        ELSE IF article.time.found /\ datetime_str # <<>> /\ iso.ok THEN iso.value
        ELSE now

\* no date is being extracted
DateIdle ==
    /\ d_pc = "off"
    /\ d_article = [lastupdated |-> NoElement, time |-> NoElement]
    /\ d_now = DateTime(0, 0, 0, 0, 0, 0, Naive)
    /\ d_result = <<>>

\* the call _extract_published_date(article)
DateInit ==
    /\ d_pc = "start"
    /\ d_article \in DateArticles
    /\ d_now \in Clock
    /\ d_result = <<>>

\* the body of _extract_published_date
DateExtract ==
    /\ d_pc = "start"
    /\ d_result' = <<ExtractPublishedDate(d_article, d_now)>>
    /\ d_pc' = "returned"
    /\ UNCHANGED <<d_article, d_now>>
    /\ UNCHANGED dateOthers

\* the caller takes the value; the element may be asked again later
DateReturn ==
    /\ d_pc = "returned"
    /\ d_pc' = "start"
    /\ d_now' \in Clock
    /\ d_result' = <<>>
    /\ UNCHANGED d_article
    /\ UNCHANGED dateOthers

(***************************************************************************)
(* BBCScraper._parse_search_results                                        *)
(***************************************************************************)
\* BBCScraper.base_url
BaseUrl ==
    <<"h", "t", "t", "p", "s", ":", "/", "/", "w", "w", "w", ".", "b", "b", "c", ".",
      "c", "o", "m">>

\* a title shorter than this makes no News of a link
MinTitleLength == 10
\* a snippet must be longer than this to be the body
MinSnippetLength == 10
\* a paragraph of the article page must be longer than this to count
MinPartLength == 20

\* the selectors of _parse_search_results, in the order they are tried
Selectors ==
    <<"[data-testid=newport-card]", "div[data-testid=search-results] article",
      ".ssrcss-1f3bvyz-Stack", "article", ".media__content">>

\* the title selectors of _extract_news_from_article, in their order
TitleSelectors == <<"h3", "h2", "h1", ".media__title", "[data-testid=card-headline]">>

\* what select_one gives for each title selector when only h3 and h2 can match
Titles(h3, h2) ==
    [k \in 1..Len(TitleSelectors) |-> IF k = 1 THEN h3 ELSE IF k = 2 THEN h2 ELSE NoElement]

IsoStamp ==
    <<"2", "0", "1", "7", "-", "0", "8", "-", "2", "3", "T", "1", "0", ":", "0", "0", ":",
      "0", "0", "Z">>

\* the elements a selector can match: what each title selector finds in
\* it, the hrefs of its <a href> elements, the texts of the elements its
\* content selectors find (in the order they are tried) and its date
\* elements
ArticleElements ==
    { [titles |-> Titles(Element(Pad(<<"t">>, 22)), NoElement),
       hrefs |-> << <<"/", "n", "1">> >>,
       snippets |-> <<>>,
       lastupdated |-> Element(<<"2", "2", " ", "A", "u", "g", " ", "2", "0", "1", "7">>),
       time |-> NoElement],
      [titles |-> Titles(Element(<<>>), Element(Pad(<<"t">>, 12))),
       hrefs |-> << <<"/", "n", "2">> >>,
       snippets |-> <<Pad(<<"s">>, 11)>>,
       lastupdated |-> NoElement,
       time |-> NoElement],
      [titles |-> Titles(NoElement, Element(Pad(<<"t">>, 3))),
       hrefs |-> << <<"n", "3">>, <<"/", "n", "1">> >>,
       snippets |-> <<Pad(<<"s">>, 3), Pad(<<"s">>, 11)>>,
       lastupdated |-> NoElement,
       time |-> Element(IsoStamp)],
      [titles |-> Titles(Element(Pad(<<"t">>, 12)), NoElement),
       hrefs |-> <<>>,
       snippets |-> <<>>,
       lastupdated |-> NoElement,
       time |-> NoElement] }

\* the <a href> elements of the page: their text and href
LinkElements ==
    { [text |-> Pad(<<"F", "i", "l", "m">>, 22), href |-> <<"/", "n", "1">>],
      [text |-> Pad(<<"f", "i", "l", "m">>, 9), href |-> <<"/", "n", "2">>],
      [text |-> Pad(<<"h", "o", "m", "e">>, 12), href |-> <<"/", "n", "3">>],
      [text |-> Pad(<<"m", "o", "r", "e">>, 12), href |-> <<"f", "i", "l", "m", "/", "n", "4">>] }

\* no selector matches anything
NoMatches == [k \in 1..Len(Selectors) |-> <<>>]

\* the lists two selectors match when both match
OneList == <<CHOOSE a \in ArticleElements : a.lastupdated.found>>
OtherList == <<CHOOSE a \in ArticleElements : a.time.found>>

\* the results pages: what soup.select gives for each selector and what
\* soup.find_all('a', href=True) gives. One selector matches a list of
\* elements, or two selectors match a list each, or none matches
Pages ==
    {[matches |-> [NoMatches EXCEPT ![1] = a],
      links |-> <<CHOOSE l \in LinkElements : Len(l.text) = 22>>] :
        a \in SeqsUpTo(ArticleElements, MaxElements) \ {<<>>}}
    \cup {[matches |-> [NoMatches EXCEPT ![i] = OneList, ![j] = OtherList],
           links |-> <<>>] :
             i \in 1..Len(Selectors), j \in 1..Len(Selectors)}
    \cup {[matches |-> NoMatches, links |-> l] : l \in SeqsUpTo(LinkElements, MaxElements)}

\* what the GET of an article url comes back with: a status and the texts
\* of the elements the first matching content selector gives
ArticleResponses ==
    { [status |-> 404, parts |-> <<>>],
      [status |-> 200, parts |-> <<Pad(<<"p">>, 20)>>],
      [status |-> 200, parts |-> <<Pad(<<"p">>, 21)>>],
      [status |-> 200, parts |-> <<Pad(<<"p">>, 22)>>],
      [status |-> 200, parts |-> <<Pad(<<"p">>, 21), Pad(<<"p">>, 21)>>] }

\* None, for a text
NoContent == [found |-> FALSE, text |-> <<>>]

LongEnough(part) == Len(part) > MinPartLength

\* get_article_content: None for a status other than 200 or when no part
\* is longer than 20 characters, else those parts joined by a space
GetArticleContent(response) ==
    IF response.status # 200 THEN NoContent
    ELSE LET content_parts == SelectSeq(response.parts, LongEnough)
         IN  IF content_parts = <<>> THEN NoContent
             ELSE [found |-> TRUE, text |-> Join(content_parts, <<" ">>)]

\* the keywords of _is_relevant_link
LinkKeywords ==
    { <<"a","d","a","m"," ","s","a","n","d","l","e","r">>,
      <<"s","a","n","d","l","e","r">>,
      <<"c","o","m","e","d","y">>,
      <<"n","e","t","f","l","i","x">>,
      <<"m","o","v","i","e">>,
      <<"f","i","l","m">> }

\* _is_relevant_link(text, href): a keyword is in the lower-cased text or href
IsRelevantLink(text, href) ==
    \E kw \in LinkKeywords :
        Occurrences(kw, Lower(text)) # {} \/ Occurrences(kw, Lower(href)) # {}

\* an href that starts with "/" is joined to base_url (urljoin keeps the
\* scheme only when the href starts with "//"), any other is kept
ResolveUrl(href) ==
    IF href # <<>> /\ Head(href) = "/"
    THEN IF Len(href) > 1 /\ href[2] = "/" THEN <<"h", "t", "t", "p", "s", ":">> \o href
         ELSE BaseUrl \o href
    ELSE href

\* News(title, content, url, source="BBC News", published_date) inside a
\* try: <<>> when __post_init__ raises, else the News
TryNews(title, content, url, published_date) ==
    IF PostInitError(title, content, url, <<"B", "B", "C">>) # "none" THEN <<>>
    ELSE <<[title |-> title, content |-> content, url |-> url, source |-> BBCName,
            published_date |-> published_date]>>

\* _create_news_from_link: None for a text shorter than 10 characters,
\* else a News with the text as title and as body
CreateNewsFromLink(link, now) ==
    LET title == Strip(link.text)
    IN  IF title = <<>> \/ Len(title) < MinTitleLength THEN <<>>
        ELSE TryNews(title, title, ResolveUrl(link.href), now)

\* the loop over title_selectors: the text of the element of the first
\* selector that finds one, "" when none does
ExtractTitle(titles) ==
    LET found == {k \in 1..Len(TitleSelectors) : titles[k].found}
    IN  IF found = {} THEN <<>> ELSE Strip(titles[Min(found)].text)

Substantial(snippet) == Len(Strip(snippet)) > MinSnippetLength

\* the loop over content_selectors: the first text longer than 10
\* characters, and the title when there is none
ExtractContent(snippets, title) ==
    LET long == SelectSeq(snippets, Substantial)
    IN  IF long = <<>> THEN title ELSE Strip(Head(long))

\* _extract_news_from_article: None without title or link, else a News
\* with the href of the first link, resolved, and the date of the element
ExtractNewsFromArticle(article, now) ==
    LET title == ExtractTitle(article.titles)
    IN  IF title = <<>> THEN <<>>
        ELSE IF article.hrefs = <<>> THEN <<>>
        ELSE TryNews(title, ExtractContent(article.snippets, title),
                     ResolveUrl(Head(article.hrefs)),
                     ExtractPublishedDate(article, now))

\* the body of a News after the article fetch: on the selector path the
\* fetched text replaces it when it is longer, on the link-scan path
\* whenever there is one
Enriched(path, content, full_content) ==
    IF path = "selector"
    THEN IF full_content.found /\ Len(full_content.text) > Len(content)
         THEN full_content.text ELSE content
    ELSE IF full_content.found THEN full_content.text ELSE content

\* as the loop over the selectors, but every selector is tried and the
\* last one that matches gives the elements
SelectArticlesLast(matches) ==
    LET matching == {k \in 1..Len(Selectors) : matches[k] # <<>>}
    IN  [articles |-> IF matching = {} THEN <<>>
                      ELSE matches[CHOOSE k \in matching : \A m \in matching : m <= k],
         tried |-> Len(Selectors)]

\* the loop over the selectors from the k-th on: the elements of the first
\* selector that matches any, and how many selectors were tried
RECURSIVE SelectFrom(_, _)
SelectFrom(matches, k) ==
    IF k > Len(Selectors) THEN [articles |-> <<>>, tried |-> Len(Selectors)]
    ELSE IF matches[k] # <<>> THEN [articles |-> matches[k], tried |-> k]
    ELSE SelectFrom(matches, k + 1)

SelectArticles(matches) == SelectFrom(matches, 1)

\* the clock reading during one parse
ParseNow == DateTime(2025, 1, 15, 9, 30, 0, Naive)

\* no page is being parsed
ParseIdle ==
    /\ p_pc = "off"
    /\ p_page = [matches |-> NoMatches, links |-> <<>>]
    /\ p_max_results = 0
    /\ p_tried = 0
    /\ p_articles = <<>>
    /\ p_path = "none"
    /\ p_idx = 0
    /\ p_news_list = <<>>
    /\ p_log = <<>>
    /\ p_result = <<>>

\* the call _parse_search_results(html, max_results, session)
ParseInit ==
    /\ p_pc = "start"
    /\ p_page \in Pages
    /\ p_max_results \in 1..MaxResults
    /\ p_tried = 0
    /\ p_articles = <<>>
    /\ p_path = "none"
    /\ p_idx = 0
    /\ p_news_list = <<>>
    /\ p_log = <<>>
    /\ p_result = <<>>

\* the selectors are tried; without a match the links are scanned
ParseBegin ==
    /\ p_pc = "start"
    /\ LET selected == SelectArticles(p_page.matches)
       IN  /\ p_articles' = selected.articles
           /\ p_tried' = selected.tried
           /\ p_path' = IF selected.articles # <<>> THEN "selector" ELSE "fallback"
           /\ p_pc' = IF selected.articles # <<>> THEN "articles" ELSE "links"
    /\ p_idx' = 1
    /\ UNCHANGED <<p_page, p_max_results, p_news_list, p_log, p_result>>
    /\ UNCHANGED parseOthers

\* one pass of the loop over articles[:max_results]
ParseArticle ==
    /\ p_pc = "articles"
    /\ p_idx <= Len(Take(p_articles, p_max_results))
    /\ LET made == ExtractNewsFromArticle(p_articles[p_idx], ParseNow)
       IN  IF made = <<>>
           THEN UNCHANGED <<p_news_list, p_log>>
           ELSE \E response \in ArticleResponses :
                   LET full_content == GetArticleContent(response)
                       content == Enriched("selector", made[1].content, full_content)
                       news == [made[1] EXCEPT !.content = content]
                   IN  /\ p_news_list' = IF IsRelevantToAdamSandler(news)
                                          THEN Append(p_news_list, news) ELSE p_news_list
                       /\ p_log' = Append(p_log, [path |-> "selector",
                                                  idx |-> p_idx,
                                                  before |-> made[1].content,
                                                  full_content |-> full_content,
                                                  after |-> content])
    /\ p_idx' = p_idx + 1
    /\ UNCHANGED <<p_pc, p_page, p_max_results, p_tried, p_articles, p_path, p_result>>
    /\ UNCHANGED parseOthers

\* one pass of the loop over links[:max_results]
ParseLink ==
    /\ p_pc = "links"
    /\ p_idx <= Len(Take(p_page.links, p_max_results))
    /\ LET link == p_page.links[p_idx]
           made == IF IsRelevantLink(Strip(link.text), link.href)
                   THEN CreateNewsFromLink(link, ParseNow) ELSE <<>>
       IN  IF made = <<>>
           THEN UNCHANGED <<p_news_list, p_log>>
           ELSE \E response \in ArticleResponses :
                   LET full_content == GetArticleContent(response)
                       content == Enriched("fallback", made[1].content, full_content)
                       news == [made[1] EXCEPT !.content = content]
                   IN  /\ p_news_list' = Append(p_news_list, news)
                       /\ p_log' = Append(p_log, [path |-> "fallback",
                                                  idx |-> p_idx,
                                                  before |-> made[1].content,
                                                  full_content |-> full_content,
                                                  after |-> content])
    /\ p_idx' = p_idx + 1
    /\ UNCHANGED <<p_pc, p_page, p_max_results, p_tried, p_articles, p_path, p_result>>
    /\ UNCHANGED parseOthers

\* after either loop: return news_list[:max_results]
ParseReturn ==
    /\ p_pc \in {"articles", "links"}
    /\ p_idx > Len(Take(IF p_pc = "articles" THEN p_articles ELSE p_page.links,
                        p_max_results))
    /\ p_result' = Take(p_news_list, p_max_results)
    /\ p_pc' = "returned"
    /\ UNCHANGED <<p_page, p_max_results, p_tried, p_articles, p_path, p_idx, p_news_list,
                   p_log>>
    /\ UNCHANGED parseOthers

(***************************************************************************)
(* The command line: main, run_async and AdamSandlerNewsAgentCLI           *)
(***************************************************************************)
\* the commands, in the order run_async tests them
CommandOrder == <<"email", "search", "test", "generate_file", "status">>

\* the first command of CommandOrder that the arguments give
FirstCommand(args) ==
    CommandOrder[Min({k \in 1..Len(CommandOrder) : CommandOrder[k] \in args})]

\* the parameters of the use-case operations after self, and those
\* without a default
Signatures ==
    [execute_daily_news_report |->
        [params |-> <<"recipient_email">>, required |-> {"recipient_email"}],
     execute_news_search_only |-> [params |-> <<>>, required |-> {}],
     execute_test_workflow |->
        [params |-> <<"recipient_email">>, required |-> {"recipient_email"}],
     execute_report_generation_only |-> [params |-> <<"save_to_file">>, required |-> {}],
     get_system_status |-> [params |-> <<>>, required |-> {}]]

\* the call of the use case each method of the CLI makes: the operation,
\* how many positional arguments and which keyword arguments
CliCall(command) ==
    CASE command = "email" ->
            [op |-> "execute_daily_news_report", positional |-> 1, keywords |-> {}]
      [] command = "search" ->
            [op |-> "execute_news_search_only", positional |-> 0, keywords |-> {}]
      [] command = "test" ->
            [op |-> "execute_test_workflow", positional |-> 1, keywords |-> {}]
      [] command = "generate_file" ->
            [op |-> "execute_report_generation_only", positional |-> 0,
             keywords |-> {"save_to_file", "publish_to_github"}]
      [] command = "status" ->
            [op |-> "get_system_status", positional |-> 0, keywords |-> {}]

\* Python binds the arguments of a call: no more positional arguments
\* than parameters, every keyword a parameter not bound by position, every
\* parameter without default bound; TypeError otherwise
Binds(call) ==
    LET sig == Signatures[call.op]
        by_position == {sig.params[i] : i \in 1..Min({call.positional, Len(sig.params)})}
        names == {sig.params[i] : i \in 1..Len(sig.params)}
    IN  /\ call.positional <= Len(sig.params)
        /\ call.keywords \subseteq (names \ by_position)
        /\ sig.required \subseteq (by_position \cup call.keywords)

\* what the method of the CLI returns from what the use case gave: the
\* bool of the daily report and the test, len(news_list) > 0, report is
\* not None, and True for any status
CliResult(command, outcome) ==
    IF command = "status" THEN "True"
    ELSE IF outcome = "success" THEN "True" ELSE "False"

\* no command line is running
CliIdle ==
    /\ c_pc = "off"
    /\ c_args = {}
    /\ c_setup_ok = FALSE
    /\ c_outcome = "none"
    /\ c_command = "none"
    /\ c_returned = "none"
    /\ c_exit = -1

\* main() after parse_args, without --help-setup: the commands given,
\* whether setup_repositories will succeed and what the use case gives
\* when it is called as its signature allows
CliInit ==
    /\ c_pc = "start"
    /\ c_args \in SUBSET {CommandOrder[k] : k \in 1..Len(CommandOrder)}
    /\ c_setup_ok \in BOOLEAN
    /\ c_outcome \in {"success", "failure"}
    /\ c_command = "none"
    /\ c_returned = "none"
    /\ c_exit = -1

\* main: without a command it returns 1, else run_async picks the first
CliDispatch ==
    /\ c_pc = "start"
    /\ IF c_args = {}
       THEN /\ c_exit' = 1
            /\ c_pc' = "exited"
            /\ UNCHANGED c_command
       ELSE /\ c_command' = FirstCommand(c_args)
            /\ c_pc' = "setup"
            /\ UNCHANGED c_exit
    /\ UNCHANGED <<c_args, c_setup_ok, c_outcome, c_returned>>
    /\ UNCHANGED cliOthers

\* the method of the command: return False if setup_repositories fails
CliSetup ==
    /\ c_pc = "setup"
    /\ IF c_setup_ok
       THEN /\ c_pc' = "call"
            /\ UNCHANGED c_returned
       ELSE /\ c_returned' = "False"
            /\ c_pc' = "returned"
    /\ UNCHANGED <<c_args, c_setup_ok, c_outcome, c_command, c_exit>>
    /\ UNCHANGED cliOthers

\* the method calls the use case and returns, or the call raises TypeError
CliUseCase ==
    /\ c_pc = "call"
    /\ c_returned' = IF Binds(CliCall(c_command)) THEN CliResult(c_command, c_outcome)
                     ELSE "TypeError"
    /\ c_pc' = "returned"
    /\ UNCHANGED <<c_args, c_setup_ok, c_outcome, c_command, c_exit>>
    /\ UNCHANGED cliOthers

\* run_async: 0 if the method returned True, 1 if it returned False or
\* raised; main exits with that code
CliExit ==
    /\ c_pc = "returned"
    /\ c_exit' = IF c_returned = "True" THEN 0 ELSE 1
    /\ c_pc' = "exited"
    /\ UNCHANGED <<c_args, c_setup_ok, c_outcome, c_command, c_returned>>
    /\ UNCHANGED cliOthers

(***************************************************************************)
(* Specifications                                                          *)
(***************************************************************************)
NewsNext ==
    \/ NewsConstruct
    \/ NewsGenerateSummary
    \/ NewsIsRelevant

InitNews ==
    NewsInit /\ ReportIdle /\ SearchIdle /\ RepoIdle /\ UseCaseIdle /\ ParseIdle /\ DateIdle /\ CliIdle

SpecNews == InitNews /\ [][NewsNext]_vars

ReportNext ==
    \/ ReportAddNews
    \/ ReportAddMultipleNews
    \/ ReportGenerateSummary
    \/ ReportToHtml
    \/ ServiceReportFromNews

InitReport ==
    ReportInit /\ NewsIdle /\ SearchIdle /\ RepoIdle /\ UseCaseIdle /\ ParseIdle /\ DateIdle /\ CliIdle

SpecReport == InitReport /\ [][ReportNext]_vars

SearchNext ==
    \/ SearchIssue
    \/ SearchHandle

InitSearch ==
    SearchInit /\ NewsIdle /\ ReportIdle /\ RepoIdle /\ UseCaseIdle /\ ParseIdle /\ DateIdle /\ CliIdle

SpecSearch == InitSearch /\ [][SearchNext]_vars

RepoNext ==
    \/ AddScraper
    \/ CloseSession
    \/ FetchAllBegin
    \/ FetchAllSource
    \/ FetchAllFinish
    \/ FetchAllReturn
    \/ SearchNewsCall
    \/ GetLatestNews
    \/ SearchReturn
    \/ ServiceGenerateReport
    \/ ServiceSendHtmlReport
    \/ ServiceReturn

InitRepo ==
    RepoInit /\ NewsIdle /\ ReportIdle /\ SearchIdle /\ UseCaseIdle /\ ParseIdle /\ DateIdle /\ CliIdle

SpecRepo == InitRepo /\ [][RepoNext]_vars

UseCaseNext ==
    \/ UseCaseBody
    \/ UseCaseFinally
    \/ UseCaseReturn

\* the use case holds a repository as WebScrapingNewsRepository() makes it
InitUseCase ==
    UseCaseInit /\ RepoInit /\ NewsIdle /\ ReportIdle /\ SearchIdle /\ ParseIdle /\ DateIdle /\ CliIdle

SpecUseCase == InitUseCase /\ [][UseCaseNext]_vars

ParseNext ==
    \/ ParseBegin
    \/ ParseArticle
    \/ ParseLink
    \/ ParseReturn

InitParse ==
    ParseInit /\ NewsIdle /\ ReportIdle /\ SearchIdle /\ RepoIdle /\ UseCaseIdle /\ DateIdle /\ CliIdle

SpecParse == InitParse /\ [][ParseNext]_vars

DateNext ==
    \/ DateExtract
    \/ DateReturn

InitDate ==
    /\ DateInit /\ NewsIdle /\ ReportIdle /\ SearchIdle /\ RepoIdle /\ UseCaseIdle
    /\ ParseIdle /\ CliIdle

SpecDate == InitDate /\ [][DateNext]_vars

CliNext ==
    \/ CliDispatch
    \/ CliSetup
    \/ CliUseCase
    \/ CliExit

InitCli ==
    /\ CliInit /\ NewsIdle /\ ReportIdle /\ SearchIdle /\ RepoIdle /\ UseCaseIdle
    /\ ParseIdle /\ DateIdle

SpecCli == InitCli /\ [][CliNext]_vars

(***************************************************************************)
(* Claims about News                                                       *)
(***************************************************************************)
\* empty or whitespace-only
Blank(s) == \A i \in 1..Len(s) : IsSpace(s[i])

\* C5: constructing a News fails with a validation error exactly when
\* title, content, url or source is empty or whitespace-only; no instance
\* with a blank required field exists.
C5_ConstructionValidates ==
    n_pc # "new" =>
        /\ (n_pc = "failed") <=> (\E i \in 1..4 : Blank(n_args[i]))
        /\ (n_pc = "failed") <=> (n_news = <<>>)
        /\ \A k \in 1..Len(n_news) :
              /\ ~Blank(n_news[k].title) /\ ~Blank(n_news[k].content)
              /\ ~Blank(n_news[k].url) /\ ~Blank(n_news[k].source)
              /\ <<n_news[k].title, n_news[k].content, n_news[k].url, n_news[k].source>> = n_args

\* C5 witness: a whitespace-only url alone makes the construction fail
C5_Witness ==
    /\ n_pc = "failed"
    /\ n_args[3] = <<"\t", " ">>
    /\ ~Blank(n_args[1]) /\ ~Blank(n_args[2]) /\ ~Blank(n_args[4])

\* C6: generate_summary(max_length) returns the body verbatim when the
\* body is not longer than the limit, and otherwise a text no longer than
\* max_length.
C6_SummaryWithinLimit ==
    n_pc = "summarised" =>
        /\ Len(n_news[1].content) <= n_max => n_summary = n_news[1].content
        /\ Len(n_news[1].content) > n_max => Len(n_summary) <= n_max

\* no sentence of the body ends within the first limit characters: the
\* text before the first ". " is longer than the limit
NoBoundaryBefore(content, limit) ==
    \A i \in Occurrences(SentenceSep, content) : i - 1 > limit

\* C7: for a body longer than the limit with no sentence boundary before
\* the limit, generate_summary returns a non-empty truncation of the body.
C7_TruncatesMidSentence ==
    (/\ n_pc = "summarised"
     /\ n_max >= 1
     /\ Len(n_news[1].content) > n_max
     /\ NoBoundaryBefore(n_news[1].content, n_max))
    => /\ n_summary # <<>>
       /\ IsPrefix(n_summary, n_news[1].content)

\* some relevance keyword occurs in the lower-cased "title content"
HasKeyword(news) ==
    LET text == news.title \o <<" ">> \o news.content
        lower == [i \in 1..Len(text) |-> LowerChar(text[i])]
    IN  \E kw \in Keywords : Occurrences(kw, lower) # {}

\* C8: a News whose title and body contain none of the relevance keywords
\* is judged not relevant.
C8_NoKeywordNotRelevant ==
    (n_pc = "judged" /\ ~HasKeyword(n_news[1])) => n_relevant = FALSE

(***************************************************************************)
(* Claims about Report                                                     *)
(***************************************************************************)
IsEntry(line) == line.kind = "entry"
IsMore(line) == line.kind = "more"

\* C9: for a report holding n >= 1 items, generate_summary lists exactly
\* the first min(n, 5) items in stored order, numbered from 1; when n > 5
\* it ends with one trailing line "... e mais (n - 5) noticias.", and when
\* n <= 5 it has no trailing line.
C9_SummaryListsFirstFive ==
    (r_pc = "summarised" /\ r_news_list # <<>>) =>
        LET n == Len(r_news_list)
            k == IF n < 5 THEN n ELSE 5
            entries == SelectSeq(r_summary, IsEntry)
            more == SelectSeq(r_summary, IsMore)
        IN  /\ Len(entries) = k
            /\ \A i \in 1..k :
                  /\ r_summary[i + 1] = entries[i]
                  /\ entries[i].n = i
                  /\ entries[i].title = r_news_list[i].title
                  /\ entries[i].source = r_news_list[i].source
                  /\ entries[i].date = r_news_list[i].published_date
                  /\ entries[i].url = r_news_list[i].url
            /\ n > 5 => /\ Len(more) = 1
                        /\ r_summary[Len(r_summary)] = [kind |-> "more", count |-> n - 5]
            /\ n <= 5 => Len(more) = 0

\* C9 witness: a summary of six news, with its five entries and the
\* trailing line for the sixth
C9_Witness ==
    /\ r_pc = "summarised"
    /\ Len(r_news_list) = 6
    /\ Len(r_summary) = 7
    /\ r_summary[7] = [kind |-> "more", count |-> 1]

\* C10: for a report with an empty item list, generate_summary returns
\* the same fixed "no results" sentence whatever the report's title and
\* generation timestamp are.
C10_EmptySummaryFixed ==
    (r_pc = "summarised" /\ r_news_list = <<>>) =>
        r_summary = <<[kind |-> "none", text |-> NoNewsSentence]>>

\* C10 witness: the summary of an empty report with the second title and
\* the second timestamp
C10_Witness ==
    /\ r_pc = "summarised"
    /\ r_news_list = <<>>
    /\ r_title = "Relatorio B"
    /\ r_generated_at = 2
    /\ r_summary # <<>>

IsNewsItem(part) == part.kind = "news-item"

\* how many times text occurs in the block of one news: in its title div
\* and in its summary div
TimesInBlock(text, block) ==
    Cardinality(Occurrences(text, block.news_title))
    + Cardinality(Occurrences(text, block.news_summary))

\* C11: for a report with zero, one or many items, to_html has one block
\* per item, in stored order, and the block of an item contains the
\* item's title exactly once and the item's url exactly once, also when
\* the item's body is its title.
C11_HtmlTitleAndUrlOnce ==
    r_pc = "rendered" =>
        LET blocks == SelectSeq(r_html, IsNewsItem)
        IN  /\ Len(blocks) = Len(r_news_list)
            /\ \A i \in 1..Len(blocks) :
                  /\ TimesInBlock(r_news_list[i].title, blocks[i]) = 1
                  /\ blocks[i].href = r_news_list[i].url

\* no two items of the list are equal
NoDuplicates(seq) == \A i, j \in 1..Len(seq) : i # j => seq[i] # seq[j]

\* the items of a call that are new: not in the list before the call and
\* not earlier in the call, in the order of the call
RECURSIVE FirstInsertions(_, _)
FirstInsertions(items, present) ==
    IF items = <<>> THEN <<>>
    ELSE IF InSeq(Head(items), present)
         THEN FirstInsertions(Tail(items), present)
         ELSE <<Head(items)>> \o FirstInsertions(Tail(items), Append(present, Head(items)))

\* C14: after any sequence of add_news and add_multiple_news calls on a
\* report created empty, the list holds no two equal items, and each call
\* leaves the items already there in place and appends the new ones in
\* the order they were given, so the items are in first-insertion order.
C14_NoDuplicatesInsertionOrder ==
    /\ NoDuplicates(r_news_list)
    /\ r_pc = "open" =>
          /\ \A news \in NewsItems :
                AddNews(r_news_list, news)
                    = r_news_list \o FirstInsertions(<<news>>, r_news_list)
          /\ \A items \in NewsLists :
                AddMultipleNews(r_news_list, items)
                    = r_news_list \o FirstInsertions(items, r_news_list)

\* C14 witness: a list of three items built by calls that also gave items
\* already in it
C14_Witness ==
    /\ r_pc = "open"
    /\ Len(r_news_list) = 3
    /\ r_news_list[1].url = "u2"
    /\ r_news_list[2].url = "u1"
    /\ r_news_list[3].title = r_news_list[1].title

\* C27: add_news treats two items that agree on url, title and source as
\* the same item, so after any sequence of additions a report never holds
\* two items with the same url, title and source, even if they differ in
\* publish timestamp or body.
C27_SameUrlTitleSourceOnce ==
    \A i, j \in 1..Len(r_news_list) :
        i # j => ~(/\ r_news_list[i].url = r_news_list[j].url
                   /\ r_news_list[i].title = r_news_list[j].title
                   /\ r_news_list[i].source = r_news_list[j].source)

\* the sum of the counts of a sources summary
RECURSIVE SumOfCounts(_)
SumOfCounts(sources) ==
    IF sources = <<>> THEN 0 ELSE Head(sources)[2] + SumOfCounts(Tail(sources))

\* C28: for a report returned by generate_adam_sandler_report_from_news
\* (as for generate_adam_sandler_report), for any input list, metadata
\* relevant_news_count equals the number of items the report holds and
\* the sum of the counts in metadata sources_summary.
C28_RelevantCountIsItemCount ==
    r_pc = "generated" =>
        /\ r_metadata[1].relevant_news_count = Len(r_news_list)
        /\ r_metadata[1].relevant_news_count = SumOfCounts(r_metadata[1].sources_summary)

\* C29 as claimed: to_html renders an analysis block for an item whenever
\* the item has an analysis payload, with the block's text taken from
\* that payload, and no analysis block for an item without a payload.
C29_AnalysisBlockWheneverPayload ==
    r_pc = "rendered" =>
        LET blocks == SelectSeq(r_html, IsNewsItem)
        IN  \A i \in 1..Len(r_news_list) :
                LET payload == r_news_list[i].ai_analysis
                IN  IF payload.present
                    THEN /\ blocks[i].ai_analysis # <<>>
                         /\ payload.has_text => blocks[i].ai_analysis = <<payload.analysis>>
                    ELSE blocks[i].ai_analysis = <<>>

\* C29: to_html renders an analysis block for an item whenever the item
\* has an analysis payload whose success flag is true, with the block's
\* text taken from that payload (the fixed text "Analise nao disponivel"
\* when the payload has no analysis text), and no analysis block for an
\* item without a payload or with a payload whose success flag is not
\* true.
C29_AnalysisBlockWhenSuccessful ==
    r_pc = "rendered" =>
        LET blocks == SelectSeq(r_html, IsNewsItem)
        IN  /\ Len(blocks) = Len(r_news_list)
            /\ \A i \in 1..Len(r_news_list) :
                   LET payload == r_news_list[i].ai_analysis
                   IN  IF payload.present /\ payload.success
                       THEN blocks[i].ai_analysis =
                                <<IF payload.has_text THEN payload.analysis
                                  ELSE AnalysisUnavailable>>
                       ELSE blocks[i].ai_analysis = <<>>

\* C29 witness: a rendered report with a successfully analysed item, an
\* item whose analysis failed and an item without analysis
C29_Witness ==
    /\ r_pc = "rendered"
    /\ \E i \in 1..Len(r_news_list) : r_news_list[i].ai_analysis = SuccessPayload
    /\ \E i \in 1..Len(r_news_list) : r_news_list[i].ai_analysis = FailurePayload
    /\ \E i \in 1..Len(r_news_list) : r_news_list[i].ai_analysis = NoAnalysis
    /\ \E i \in 1..Len(r_html) :
           r_html[i].kind = "news-item" /\ r_html[i].ai_analysis # <<>>

(***************************************************************************)
(* Claims about BBCScraper.search_adam_sandler_news                        *)
(***************************************************************************)
\* C4: search_adam_sandler_news never raises to its caller: a non-200
\* status, a timeout or any exception on the search request yields an
\* empty list, and the search request is issued exactly once, whatever
\* retry_attempts is.
C4_SearchNeverRaisesNoRetry ==
    /\ s_pc # "raised"
    /\ s_requests <= 1
    /\ s_pc \in {"awaiting", "returned"} => s_requests = 1
    /\ (s_pc = "returned" /\ s_handler # "parsed") => s_result = <<>>
    /\ (s_pc = "returned" /\ s_handler = "parsed") => Len(s_result) <= s_max_results
    /\ (s_pc # "off" /\ s_handler # "none") => s_pc = "returned"

\* C4 witness: with retry_attempts 3, a search whose request timed out
\* has returned the empty list after one request
C4_Witness ==
    /\ s_pc = "returned"
    /\ s_retry = 3
    /\ s_handler = "except TimeoutError"
    /\ s_requests = 1
    /\ s_result = <<>>

\* C15: the search request issued for fetch_news_from_source(source,
\* query) and search_news(query) is built from the query the caller
\* passed: its url contains that term, escaped, so calls with different
\* terms request different search urls.
C15_SearchUrlHasQuery ==
    s_pc \in {"awaiting", "returned"} =>
        /\ Occurrences(Quote(s_query), s_url) # {}
        /\ \A other \in Queries : other # s_query => SearchUrl(other) # s_url

(***************************************************************************)
(* Claims about WebScrapingNewsRepository.fetch_all_adam_sandler_news      *)
(***************************************************************************)
UrlsOf(news) == {news[i].url : i \in 1..Len(news)}

\* where url is first seen in news
FirstIndex(news, url) == Min({i \in 1..Len(news) : news[i].url = url})

\* C1: the list returned by fetch_all_adam_sandler_news contains each
\* distinct url of the collected News exactly once, the surviving News of
\* a url is the first one seen in source-then-discovery order, and the
\* survivors keep their first-seen relative order.
C1_DedupKeepsFirstSeen ==
    f_pc = "done" =>
        /\ \A i, j \in 1..Len(unique_news) :
              i # j => unique_news[i].url # unique_news[j].url
        /\ UrlsOf(unique_news) = UrlsOf(all_news)
        /\ \A k \in 1..Len(unique_news) :
              unique_news[k] = all_news[FirstIndex(all_news, unique_news[k].url)]
        /\ \A k, l \in 1..Len(unique_news) :
              k < l => FirstIndex(all_news, unique_news[k].url)
                          < FirstIndex(all_news, unique_news[l].url)

\* C1 witness: four News collected, two urls each seen twice, the first
\* two News returned
C1_Witness ==
    /\ f_pc = "done"
    /\ Len(all_news) = 4
    /\ all_news[3].url = all_news[1].url
    /\ all_news[4].url = all_news[2].url
    /\ unique_news = <<all_news[1], all_news[2]>>

\* what entry i gives the caller of fetch_news_from_source, nothing when
\* the entry fails
Yield(i) == SourceStep(scrapers, i).items
Fails(i) == SourceStep(scrapers, i).failed # ""

\* C2: if one source fails inside fetch_all_adam_sandler_news (its
\* descriptor construction or its fetch raises), every source registered
\* after it is still invoked and what it yields is still returned;
\* fetch_all_adam_sandler_news never raises, and when every source fails
\* it returns an empty list.
C2_SourceFailureIsolated ==
    /\ f_pc # "raised"
    /\ f_pc = "done" =>
          /\ Len(f_log) = Len(scrapers)
          /\ \A i \in 1..Len(scrapers) :
                /\ f_log[i].key = scrapers[i].key
                /\ f_log[i].failed # "" <=> Fails(i)
                /\ UrlsOf(Yield(i)) \subseteq UrlsOf(unique_news)
          /\ all_news = Concat([i \in 1..Len(scrapers) |-> Yield(i)])
          /\ (\A i \in 1..Len(scrapers) : Fails(i)) => unique_news = <<>>

\* C2 witness: the first source failed in get_news_source, the second one
\* was searched and its News are returned
C2_Witness ==
    /\ f_pc = "done"
    /\ Len(f_log) = 2
    /\ f_log[1].failed = "get_news_source"
    /\ f_log[2].failed = ""
    /\ f_log[2].searched # ""
    /\ unique_news # <<>>

\* the list the extractor registered at entry i returns, nothing when the
\* source fails: its descriptor cannot be built, is not a web-scraping
\* one, names no registered scraper, or the extractor raises
OwnList(i) ==
    LET sc == scrapers[i].scraper
    IN  IF \/ sc.descriptor.raises
           \/ sc.descriptor.source_type # WebScraping
           \/ Lookup(scrapers, sc.descriptor.name) = 0
           \/ sc.extraction.raises
        THEN <<>>
        ELSE ItemsOf(scrapers[i].key, sc)

\* every registered scraper's descriptor carries the name the scraper is
\* registered under and is a web-scraping one, and nothing raises
WellFormed(registry) ==
    \A i \in 1..Len(registry) :
        /\ ~registry[i].scraper.descriptor.raises
        /\ registry[i].scraper.descriptor.name = registry[i].key
        /\ registry[i].scraper.descriptor.source_type = WebScraping
        /\ ~registry[i].scraper.extraction.raises

\* C3: before de-duplication the list built by fetch_all_adam_sandler_news
\* is the concatenation, in registration order, of the lists returned by
\* each registered source's own extractor (sources registered with
\* add_scraper included), so every url an extractor returned is in the
\* output.  Stated for the registries in which no source fails.
C3_ConcatenationOfAllSources ==
    (f_pc = "done" /\ WellFormed(scrapers)) =>
        /\ all_news = Concat([i \in 1..Len(scrapers) |-> OwnList(i)])
        /\ \A i \in 1..Len(scrapers) : UrlsOf(OwnList(i)) \subseteq UrlsOf(unique_news)

(***************************************************************************)
(* Claims about the report service and the searches of the repository      *)
(***************************************************************************)
IsNoNews(part) == part.kind = "none"

\* C12: a run that finds zero relevant items still produces a Report
\* without raising, and both renderings handed to the delivery
\* collaborator, the plain-text summary and the HTML document of
\* to_html, state that no news was found.
C12_NoNewsReportSaysSo ==
    /\ f_pc # "raised"
    /\ (f_pc = "sent" /\ g_report[1].metadata.relevant_news_count = 0) =>
          /\ g_report[1].news_list = <<>>
          /\ SelectSeq(g_sent[1].text, IsNoNews) # <<>>
          /\ SelectSeq(g_sent[1].html, IsNoNews) # <<>>

\* two sources are registered and each gives one News, both with the
\* same url: the fetch of each of the two entries yields it, or the two
\* sources are well-formed and the extractor of each returns it
TwoSourcesSameUrl ==
    /\ Len(scrapers) = 2
    /\ \E u \in NewsUrls :
          \/ \A i \in 1..2 : Len(Yield(i)) = 1 /\ Yield(i)[1].url = u
          \/ /\ WellFormed(scrapers)
             /\ \A i \in 1..2 : scrapers[i].scraper.extraction.urls = <<u>>

\* C13: when two registered sources each return one item with the same
\* url, fetch_all_adam_sandler_news returns a single-element list, and
\* the report built from it has metadata relevant_news_count 1 and a
\* summary with exactly one numbered entry.
C13_SameUrlTwiceOneEntry ==
    (f_pc = "reported" /\ TwoSourcesSameUrl) =>
        /\ Len(unique_news) = 1
        /\ g_report[1].metadata.relevant_news_count = 1
        /\ Len(SelectSeq(g_report[1].summary, IsEntry)) = 1
        /\ g_report[1].summary[2].url = unique_news[1].url

\* C13 witness: two News with the same url were collected, one is
\* returned and the report lists it
C13_Witness ==
    /\ f_pc = "reported"
    /\ TwoSourcesSameUrl
    /\ Len(all_news) = 2
    /\ all_news[1].url = all_news[2].url
    /\ Len(unique_news) = 1
    /\ g_report[1].metadata.relevant_news_count = 1

\* C16: get_latest_news(limit) returns at most limit items, for every
\* limit and every set of source results.
C16_LatestAtMostLimit ==
    f_pc = "latest" => Len(all_news) <= l_limit

\* the step calls _get_session: fetch_all_adam_sandler_news at its start,
\* search_news and get_latest_news inside fetch_news_from_source
GetsSession ==
    /\ f_pc = "idle"
    /\ f_pc' \in {"loop", "searched", "latest"}

\* C18: the repository holds at most one open session at any time: none
\* exists before the first fetch, _get_session creates one only when none
\* exists or the held one is closed and otherwise returns the held one,
\* and neither fetch_all_adam_sandler_news nor search_news closes it;
\* only close_session does.
C18_OneSessionOnlyCloseSessionCloses ==
    /\ session = "none"
    /\ open_sessions = 0
    /\ [][/\ open_sessions' <= 1
          /\ (session' = "open") <=> (open_sessions' = 1)
          /\ (session # "open" /\ session' = "open") =>
                (GetsSession /\ open_sessions' = open_sessions + 1)
          /\ (session = "open" /\ GetsSession) =>
                (session' = "open" /\ open_sessions' = open_sessions)
          /\ (session = "open" /\ session' # "open") => CloseSession
          /\ session' = "none" => session = "none"]_vars

\* C18 witness: search_news has run, the repository holds an open
\* session and it is the only one
C18_Witness ==
    /\ f_pc = "searched"
    /\ session = "open"
    /\ open_sessions = 1

\* C19: in fetch_all_adam_sandler_news a pause occurs between the end of
\* one source's fetch and the start of the next one's, for every pair of
\* consecutive sources, also when the earlier source failed with an
\* exception.
C19_PauseBetweenSources ==
    f_pc = "done" => \A i \in 1..(Len(f_log) - 1) : f_log[i].paused

(***************************************************************************)
(* Claims about NewsAggregatorUseCase                                      *)
(***************************************************************************)
\* C17: every use-case operation that can open the shared HTTP session
\* (daily report, search-only, report-generation-only and system status)
\* has released it when it returns, on its success path and on every
\* failure path; no operation leaves an open session behind.
C17_SessionReleasedOnReturn ==
    u_pc = "returned" => (session # "open" /\ open_sessions = 0)

(***************************************************************************)
(* Claims about BBCScraper._parse_search_results                           *)
(***************************************************************************)
\* C20: the extractor replaces an item's body with the body fetched from
\* the article url only if the fetched body is strictly longer than the
\* current body, on the selector path and on the link-scan path alike, so
\* a body never gets shorter or is replaced by an equal-length text.
C20_BodyReplacedOnlyIfLonger ==
    \A i \in 1..Len(p_log) :
        /\ Len(p_log[i].after) >= Len(p_log[i].before)
        /\ p_log[i].after # p_log[i].before =>
              /\ p_log[i].full_content.found
              /\ p_log[i].after = p_log[i].full_content.text
              /\ Len(p_log[i].full_content.text) > Len(p_log[i].before)

(***************************************************************************)
(* Claims about BBCScraper._extract_published_date                         *)
(***************************************************************************)
\* the "last updated" text of the element, stripped, <<>> when it has none
SpanText == IF d_article.lastupdated.found THEN Strip(d_article.lastupdated.text) ELSE <<>>

\* a datetime: a calendar day and a time of day
IsDateTime(v) ==
    /\ IsValidDate(v.year, v.month, v.day)
    /\ v.hour \in 0..23 /\ v.minute \in 0..59 /\ v.second \in 0..59

\* C26: date extraction follows a fixed fallback order and always returns
\* a timestamp: a parsable "last updated" text wins, the abbreviated-month
\* format before the full-month format; the time attribute is used only
\* when that text is absent or unparsable; when every attempt fails the
\* current time is returned, not an error.
C26_DateFallbackOrder ==
    d_pc = "returned" =>
        /\ Len(d_result) = 1
        /\ IsDateTime(d_result[1])
        /\ LET abbr == Strptime(SpanText, AbbrMonths)
               full == Strptime(SpanText, FullMonths)
               attr == IF d_article.time.found
                       THEN FromIsoFormat(ReplaceZ(d_article.time.text)) ELSE NoDate
           IN  /\ abbr.ok => d_result[1] = abbr.value
               /\ (~abbr.ok /\ full.ok) => d_result[1] = full.value
               /\ (~abbr.ok /\ ~full.ok /\ attr.ok) => d_result[1] = attr.value
               /\ (~abbr.ok /\ ~full.ok /\ ~attr.ok) => d_result[1] = d_now

\* an element with an unparsable "last updated" text and a parsable time
\* attribute has been given its date
C26_Witness ==
    /\ d_pc = "returned"
    /\ d_article.lastupdated.found
    /\ SpanText # <<>>
    /\ ~Strptime(SpanText, AbbrMonths).ok
    /\ ~Strptime(SpanText, FullMonths).ok
    /\ d_article.time.found
    /\ d_result[1].tz # Naive

(***************************************************************************)
(* Claims about the selectors and the two scans                            *)
(***************************************************************************)
\* the selectors that match at least one element of the page
Matching == {k \in 1..Len(Selectors) : p_page.matches[k] # <<>>}

\* C23: the structural selectors are tried in their listed order and the
\* candidates come from the first selector that matches at least one
\* element; later selectors are not tried once one has matched, and the
\* link scan runs if and only if no selector matched.
C23_FirstMatchingSelectorWins ==
    p_pc \in {"articles", "links", "returned"} =>
        IF Matching # {}
        THEN /\ p_articles = p_page.matches[Min(Matching)]
             /\ p_tried = Min(Matching)
             /\ p_path = "selector"
             /\ \A i \in 1..Len(p_log) : p_log[i].path = "selector"
        ELSE /\ p_articles = <<>>
             /\ p_tried = Len(Selectors)
             /\ p_path = "fallback"
             /\ \A i \in 1..Len(p_log) : p_log[i].path = "fallback"

\* two selectors match different elements and the parse has returned an
\* item of the earlier one's
C23_Witness ==
    /\ p_pc = "returned"
    /\ Cardinality(Matching) = 2
    /\ p_tried < Len(Selectors)
    /\ p_result # <<>>

\* the News the k-th element of articles makes, <<>> if none
MadeOf(k) == ExtractNewsFromArticle(p_articles[k], ParseNow)

\* the k-th element survives extraction and the relevance filter
Survives(k) == MadeOf(k) # <<>> /\ IsRelevantToAdamSandler(MadeOf(k)[1])

\* the positions of the surviving elements, in scan order
SurvivingPositions == SelectSeq([k \in 1..Len(p_articles) |-> k], Survives)

\* C21: the extractor's result is the first max_results surviving
\* candidates in scan order: never more than max_results items, in scan
\* order, and a surviving candidate is left out only when max_results
\* survivors precede it.
C21_FirstSurvivorsInScanOrder ==
    (p_pc = "returned" /\ p_path = "selector") =>
        LET expected == Take(SurvivingPositions, p_max_results)
        IN  /\ Len(p_result) <= p_max_results
            /\ Len(p_result) = Len(expected)
            /\ \A i \in 1..Len(expected) :
                   /\ p_result[i].title = MadeOf(expected[i])[1].title
                   /\ p_result[i].url = MadeOf(expected[i])[1].url

\* the k-th link of the page yielded an item of the result
LinkYields(k) == \E i \in 1..Len(p_result) : p_log[i].idx = k

\* C22: in the link scan every hyperlink of the page is examined whatever
\* its position: a link whose text or url has a relevance keyword yields
\* an item unless max_results items were produced before it, and a link
\* without keyword never yields one.
C22_EveryLinkExamined ==
    (p_pc = "returned" /\ p_path = "fallback") =>
        \A k \in 1..Len(p_page.links) :
            LET link == p_page.links[k]
                produced == Cardinality({j \in 1..(k - 1) : LinkYields(j)})
            IN  IF IsRelevantLink(Strip(link.text), link.href)
                THEN produced < p_max_results => LinkYields(k)
                ELSE ~LinkYields(k)

\* the first non-empty text the title selectors find, in their order
FirstNonEmptyTitle(titles) ==
    LET texts == {k \in 1..Len(TitleSelectors) :
                     titles[k].found /\ Strip(titles[k].text) # <<>>}
    IN  IF texts = {} THEN <<>> ELSE Strip(titles[Min(texts)].text)

\* C24: an item's title is the first non-empty text found across the
\* ordered title selectors: when an earlier selector finds an element with
\* empty text and a later one an element with text, the item is extracted
\* with the later text as its title.
C24_TitleIsFirstNonEmptyText ==
    (p_pc = "returned" /\ p_path = "selector") =>
        \A k \in 1..Len(Take(p_articles, p_max_results)) :
            (FirstNonEmptyTitle(p_articles[k].titles) # <<>> /\ p_articles[k].hrefs # <<>>) =>
                \E i \in 1..Len(p_log) :
                    /\ p_log[i].idx = k
                    /\ p_news_list[i].title = FirstNonEmptyTitle(p_articles[k].titles)

\* a url with a scheme and a host
IsAbsolute(url) ==
    \/ IsPrefix(<<"h", "t", "t", "p", "s", ":", "/", "/">>, url)
    \/ IsPrefix(<<"h", "t", "t", "p", ":", "/", "/">>, url)

\* C25: every item returned by the extractor carries an absolute url: a
\* relative link, root-relative or path-relative, is resolved against the
\* base url, on the selector path and on the link-scan path.
C25_UrlsAreAbsolute ==
    p_pc = "returned" => \A i \in 1..Len(p_result) : IsAbsolute(p_result[i].url)

(***************************************************************************)
(* Claims about the command line                                           *)
(***************************************************************************)
\* C30: generate_report_file returns True, and the --generate-file command
\* exits with code 0, whenever the use case's report generation succeeds;
\* it returns False only when repository setup fails or no report could
\* be generated.
C30_GenerateFileSucceeds ==
    (c_pc = "exited" /\ c_command = "generate_file") =>
        /\ (c_setup_ok /\ c_outcome = "success") => (c_returned = "True" /\ c_exit = 0)
        /\ c_returned = "False" => (~c_setup_ok \/ c_outcome = "failure")

=============================================================================
